---- MODULE Spec2Model ----
(***************************************************************************)
(* Model of the subscription-plan generator:                                *)
(*   - PlanValidator (validator.py) over untyped payloads, with the        *)
(*     structural phase of schema.py and the typed parse of models.py;      *)
(*   - PlanGenerationPipeline.generate_document (pipeline.py): the          *)
(*     compose / call / parse / merge / validate / repair loop;            *)
(*   - PlanGenerationPipeline.generate_ab_variants (pipeline.py): one       *)
(*     generate_document task per label under asyncio.gather, then the      *)
(*     justification loop with its fallback;                                *)
(*   - ExampleRetriever (retrieval.py): tokens, inverted index, scoring.    *)
(* Specifications: Spec (one generate_document call), SpecValidate (one     *)
(* validate call), SpecRevalidate (several validate calls on one            *)
(* instance), SpecAB (one generate_ab_variants call), SpecRetrieve (one     *)
(* retrieve call).                                                          *)
(*                                                                         *)
(* Representation.  A Python str whose characters matter (tier, region,     *)
(* video_quality, currency) is a sequence of one-character strings, so     *)
(* that lower(), upper() and title() are computed character by character.  *)
(* Other strings (id, name, messages) are atomic.  An untyped mapping is a  *)
(* TLA+ record whose DOMAIN is the set of keys present.  Numbers are       *)
(* integers.  A raw LLM text is a sequence of lines (see RawTexts).         *)
(***************************************************************************)
EXTENDS Integers, Sequences, FiniteSets, TLC

VARIABLES
    \* ---- one generate_document call (pipeline.py:43-91) ----
    max_retries,        \* config.max_retries
    max_attempts,       \* keyword argument; 0 stands for None (both falsy)
    metadata,           \* caller metadata: NoMetadata (None) or a mapping
    pc,                 \* position inside generate_document
    attempts,           \* local `attempts`
    attempt,            \* loop variable
    prior_yaml,         \* local `prior_yaml` (NoText stands for None)
    validation_errors,  \* local `validation_errors`
    warnings,           \* local `warnings`
    prompt,             \* last prompt handed to llm.generate
    yaml_output,        \* local `yaml_output`
    payload,            \* local `payload`
    result,             \* returned PlanGenerationResult (NoResult before)
    raised,             \* exception leaving the call (NoException before)
    \* ---- observation of the call (history, not program state) ----
    llm_calls,          \* number of llm.generate calls issued
    validate_calls,     \* number of validator.validate calls made
    last,               \* what the last completed attempt saw and produced
    llm_done,           \* number of llm.generate calls that returned or raised
    settled,            \* number of attempts whose response was parsed and,
                        \* when it parsed, validated
    \* ---- one PlanValidator.validate call (validator.py:18-26) ----
    v_payload,          \* argument of validate
    v_out,              \* value returned by validate (<<>> before)
    v_pc,               \* "call" before the call, "returned" after it
    \* ---- repeated validate calls on one PlanValidator instance ----
    rv_payload,         \* the caller's payload object, validated repeatedly
    rv_first,           \* <<value returned by the first call on rv_payload>>
    rv_out,             \* value returned by the latest call on rv_payload
    rv_n,               \* number of validate calls made on the instance
    rv_left,            \* seen_ids and region_tier_pairs as the latest
                        \* _cross_field_rules run left them (its locals)
    rv_last,            \* "none", "target" (rv_payload) or "other"
    rv_between,         \* calls on other payloads since the first call on
                        \* rv_payload
    \* ---- one generate_ab_variants call (pipeline.py:93-117) ----
    ab_enabled,         \* config.enable_ab_testing
    ab_max_retries,     \* config.max_retries
    ab_labels_arg,      \* argument `labels`; <<>> stands for None or empty
    ab_labels,          \* local `labels`
    ab_pc,              \* position inside generate_ab_variants
    br,                 \* the generate_document coroutines handed to gather
    ab_j,               \* position of the justification loop in `labels`
    ab_variants,        \* local `variants`
    ab_return,          \* <<returned list>>, <<>> before the return
    ab_raised,          \* exception leaving generate_ab_variants
    ab_jcalls,          \* number of justification requests issued (history)
    ab_latest,          \* latest attempt completed by any task (history)
    ab_at_raise,        \* the tasks as they were when gather raised to the
                        \* caller (history; <<>> before)
    \* ---- one ExampleRetriever and one retrieve call (retrieval.py:36-74) ----
    r_examples,         \* self.examples
    r_index,            \* self.inverted_index
    r_query,            \* argument `query`
    r_top_k,            \* argument `top_k`
    r_out,              \* returned list (<<>> before the return)
    r_pc                \* "call" before the call, "returned" after it

vars == << max_retries, max_attempts, metadata, pc, attempts, attempt,
           prior_yaml, validation_errors, warnings, prompt, yaml_output,
           payload, result, raised, llm_calls, validate_calls, last,
           llm_done, settled,
           v_payload, v_out, v_pc,
           rv_payload, rv_first, rv_out, rv_n, rv_left, rv_last, rv_between,
           ab_enabled, ab_max_retries, ab_labels_arg, ab_labels, ab_pc, br, ab_j,
           ab_variants, ab_return, ab_raised, ab_jcalls, ab_latest, ab_at_raise,
           r_examples, r_index, r_query, r_top_k, r_out, r_pc >>

pipelineVars == << max_retries, max_attempts, metadata, pc, attempts, attempt,
                   prior_yaml, validation_errors, warnings, prompt, yaml_output,
                   payload, result, raised, llm_calls, validate_calls, last,
                   llm_done, settled >>

validatorVars == << v_payload, v_out, v_pc >>

revalidateVars == << rv_payload, rv_first, rv_out, rv_n, rv_left, rv_last, rv_between >>

abVars == << ab_enabled, ab_max_retries, ab_labels_arg, ab_labels, ab_pc, br, ab_j,
            ab_variants, ab_return, ab_raised, ab_jcalls, ab_latest,
            ab_at_raise >>

retrieverVars == << r_examples, r_index, r_query, r_top_k, r_out, r_pc >>

\* Everything that one generate_document call leaves alone.
outsidePipeline == << validatorVars, revalidateVars, abVars, retrieverVars >>

----------------------------------------------------------------------------
(* Bounds *)

\* Largest attempt budget (max_retries, max_attempts) explored.
MaxBudget == 3
\* Longest plans array explored by the validator specification.
MaxPlans == 2
\* Largest number of validate calls made on one validator instance.
MaxCalls == 3
\* Largest config.max_retries explored with concurrent generation tasks.
MaxABRetries == 2
\* Longest corpus explored by the retrieval specification.
MaxCorpus == 2
\* Largest top_k explored by the retrieval specification.
MaxTopK == 2

----------------------------------------------------------------------------
(* Python str methods on character sequences *)

UpperLetters == << "A","B","C","D","E","F","G","H","I","J","K","L","M",
                   "N","O","P","Q","R","S","T","U","V","W","X","Y","Z" >>

LowerLetters == << "a","b","c","d","e","f","g","h","i","j","k","l","m",
                   "n","o","p","q","r","s","t","u","v","w","x","y","z" >>

Range(s) == { s[i] : i \in DOMAIN s }

IsUpperChar(c) == c \in Range(UpperLetters)

IsLowerChar(c) == c \in Range(LowerLetters)

IsCased(c) == IsUpperChar(c) \/ IsLowerChar(c)

LowerChar(c) ==
    IF IsUpperChar(c)
    THEN LowerLetters[CHOOSE i \in DOMAIN UpperLetters : UpperLetters[i] = c]
    ELSE c

UpperChar(c) ==
    IF IsLowerChar(c)
    THEN UpperLetters[CHOOSE i \in DOMAIN LowerLetters : LowerLetters[i] = c]
    ELSE c

\* str.lower()
Lower(s) == [i \in DOMAIN s |-> LowerChar(s[i])]

\* str.upper()
Upper(s) == [i \in DOMAIN s |-> UpperChar(s[i])]

\* str.title(): a cased character is upper-cased when the character before
\* it is not cased (or it is the first), lower-cased otherwise.
Title(s) ==
    [i \in DOMAIN s |->
        IF i > 1 /\ IsCased(s[i-1]) THEN LowerChar(s[i]) ELSE UpperChar(s[i])]

----------------------------------------------------------------------------
(* Sequence helpers *)

RECURSIVE Concat(_)
\* Concatenation of a sequence of sequences.
Concat(ss) == IF ss = <<>> THEN <<>> ELSE Head(ss) \o Concat(Tail(ss))

\* Python list index (0-based) as it appears in an error path.
Idx(i) == ToString(i - 1)

----------------------------------------------------------------------------
(* Untyped values *)

\* YAML null / Python None as a metadata value.
NullValue == [ty |-> "null", kv |-> <<>>]

\* A YAML scalar where a mapping is expected.
StrValue == [ty |-> "str", kv |-> <<>>]

\* A mapping value with entries kv.
MapValue(kv) == [ty |-> "map", kv |-> kv]

\* dict.update: entries of m2 replace same-named entries of m1.
DictUpdate(m1, m2) ==
    [k \in (DOMAIN m1) \cup (DOMAIN m2) |-> IF k \in DOMAIN m2 THEN m2[k] ELSE m1[k]]

\* One formatted validation message: "<path joined by ' > '>: <message>".
\* rule and arg (a sequence of strings) stand for the message text.
Err(path, rule, arg) == [path |-> path, rule |-> rule, arg |-> arg]

----------------------------------------------------------------------------
(* Structural phase: PLAN_DOCUMENT_SCHEMA, keyword by keyword, in the      *)
(* order Draft202012Validator.iter_errors visits the schema.  Scalars are  *)
(* assumed to carry their declared JSON type, except `metadata`, whose     *)
(* type is tagged.                                                          *)

PlanRequired ==
    << "id", "name", "region", "tier", "price", "device_limit", "video_quality" >>

PlanProperties ==
    { "id", "name", "region", "tier", "price", "device_limit", "video_quality",
      "description", "add_ons" }

PriceRequired == << "monthly", "currency" >>

AddOnRequired == << "name", "price_delta" >>

DocumentProperties == { "version", "metadata", "plans" }

DeviceLimitMinimum == 0

DeviceLimitMaximum == 8

CurrencyLength == 3

VideoQualityMinLength == 2

\* "required": one error per missing name, in the order of the list.
RequiredErrors(obj, required, path) ==
    Concat([i \in 1..Len(required) |->
              IF required[i] \in DOMAIN obj THEN <<>>
              ELSE << Err(path, "required", <<required[i]>>) >>])

\* "additionalProperties": False yields one error naming the extras.
AdditionalPropertiesErrors(obj, declared, path) ==
    IF (DOMAIN obj) \subseteq declared THEN <<>>
    ELSE << Err(path, "additionalProperties", <<"unexpected">>) >>

\* "minLength": 1 on an atomic string.
MinLength1Errors(obj, key, path) ==
    IF key \in DOMAIN obj /\ obj[key] = ""
    THEN << Err(path \o <<key>>, "minLength", <<key>>) >> ELSE <<>>

\* "minLength": n on a character sequence.
MinLengthErrors(obj, key, n, path) ==
    IF key \in DOMAIN obj /\ Len(obj[key]) < n
    THEN << Err(path \o <<key>>, "minLength", <<key>>) >> ELSE <<>>

\* "minimum": 0 on a number.
MinimumErrors(obj, key, path) ==
    IF key \in DOMAIN obj /\ obj[key] < 0
    THEN << Err(path \o <<key>>, "minimum", <<key>>) >> ELSE <<>>

\* "pattern": "^[A-Z]{3}$".
MatchesCurrencyPattern(c) ==
    Len(c) = CurrencyLength /\ \A i \in DOMAIN c : IsUpperChar(c[i])

\* "uniqueItems": True.
UniqueItemsErrors(arr, path) ==
    IF \E i, j \in DOMAIN arr : i < j /\ arr[i] = arr[j]
    THEN << Err(path, "uniqueItems", <<"non-unique">>) >> ELSE <<>>

\* schema.py:20-27.  The price object does not forbid additional properties.
PriceErrors(price, path) ==
    RequiredErrors(price, PriceRequired, path)
    \o MinimumErrors(price, "monthly", path)
    \o (IF "currency" \in DOMAIN price /\ ~MatchesCurrencyPattern(price.currency)
        THEN << Err(path \o <<"currency">>, "pattern", <<"currency">>) >> ELSE <<>>)

\* schema.py:28
DeviceLimitErrors(plan, path) ==
    IF "device_limit" \notin DOMAIN plan THEN <<>>
    ELSE (IF plan.device_limit < DeviceLimitMinimum
          THEN << Err(path \o <<"device_limit">>, "minimum", <<"device_limit">>) >> ELSE <<>>)
      \o (IF plan.device_limit > DeviceLimitMaximum
          THEN << Err(path \o <<"device_limit">>, "maximum", <<"device_limit">>) >> ELSE <<>>)

\* schema.py:33-41.  Add-on objects do not forbid additional properties.
AddOnErrors(addon, path) ==
    RequiredErrors(addon, AddOnRequired, path)
    \o MinLength1Errors(addon, "name", path)
    \o MinimumErrors(addon, "price_delta", path)

\* schema.py:31-43
AddOnsErrors(plan, path) ==
    IF "add_ons" \notin DOMAIN plan THEN <<>>
    ELSE Concat([k \in 1..Len(plan.add_ons) |->
                   AddOnErrors(plan.add_ons[k], path \o <<"add_ons", Idx(k)>>)])
         \o UniqueItemsErrors(plan.add_ons, path \o <<"add_ons">>)

\* schema.py:12-46: one item of the plans array.
PlanErrors(plan, path) ==
    RequiredErrors(plan, PlanRequired, path)
    \o MinLength1Errors(plan, "id", path)
    \o MinLength1Errors(plan, "name", path)
    \o MinLengthErrors(plan, "region", 1, path)
    \o MinLengthErrors(plan, "tier", 1, path)
    \o (IF "price" \in DOMAIN plan THEN PriceErrors(plan.price, path \o <<"price">>) ELSE <<>>)
    \o DeviceLimitErrors(plan, path)
    \o MinLengthErrors(plan, "video_quality", VideoQualityMinLength, path)
    \o AddOnsErrors(plan, path)
    \o AdditionalPropertiesErrors(plan, PlanProperties, path)

\* schema.py:9-48: the plans array.
PlansErrors(plans) ==
    (IF Len(plans) < 1 THEN << Err(<<"plans">>, "minItems", <<"plans">>) >> ELSE <<>>)
    \o Concat([i \in 1..Len(plans) |-> PlanErrors(plans[i], <<"plans", Idx(i)>>)])
    \o UniqueItemsErrors(plans, <<"plans">>)

\* self._validator.iter_errors(payload), each error formatted by _format_error.
SchemaErrors(p) ==
    RequiredErrors(p, <<"plans">>, <<>>)
    \o (IF "metadata" \in DOMAIN p /\ p.metadata.ty # "map"
        THEN << Err(<<"metadata">>, "type", <<"object">>) >> ELSE <<>>)
    \o (IF "plans" \in DOMAIN p THEN PlansErrors(p.plans) ELSE <<>>)
    \o AdditionalPropertiesErrors(p, DocumentProperties, <<>>)

----------------------------------------------------------------------------
(* Typed parse: PlanDocument.model_validate on a structurally valid payload *)

s_basic == << "b","a","s","i","c" >>

s_mobile == << "m","o","b","i","l","e" >>

s_premium == << "p","r","e","m","i","u","m" >>

s_uhd == << "u","h","d" >>

s_UHD == << "U","H","D" >>

s_4K == << "4","K" >>

\* Python None for an Optional[str] is <<>>, a present string s is <<s>>.
Optional(obj, key) == IF key \in DOMAIN obj THEN << obj[key] >> ELSE <<>>

\* models.py:14-17
TypedAddOn(a) ==
    [name |-> a.name, price_delta |-> a.price_delta,
     description |-> Optional(a, "description")]

\* models.py:9-11 (undeclared keys of the price mapping are ignored)
TypedPrice(pr) == [monthly |-> pr.monthly, currency |-> pr.currency]

\* models.py:31-33
normalize_tier(value) == Title(value)

\* models.py:20-33
TypedPlan(q) ==
    [id |-> q.id, name |-> q.name, region |-> q.region,
     tier |-> normalize_tier(q.tier),
     price |-> TypedPrice(q.price),
     device_limit |-> q.device_limit,
     video_quality |-> q.video_quality,
     add_ons |-> IF "add_ons" \in DOMAIN q
                 THEN [k \in DOMAIN q.add_ons |-> TypedAddOn(q.add_ons[k])]
                 ELSE <<>>,
     description |-> Optional(q, "description")]

\* models.py:36-39
ModelValidate(p) ==
    [version |-> IF "version" \in DOMAIN p THEN p.version ELSE "1.0",
     plans |-> [i \in DOMAIN p.plans |-> TypedPlan(p.plans[i])],
     metadata |-> IF "metadata" \in DOMAIN p THEN p.metadata ELSE NullValue]

----------------------------------------------------------------------------
(* Cross-field phase: PlanValidator._cross_field_rules *)

\* validator.py:35-36
DuplicateIdError(plan) == Err(<<>>, "Duplicate plan id", << plan.id >>)

\* validator.py:39-40
DuplicatePairWarning(plan) ==
    Err(<<>>, "Duplicate region/tier combination", plan.region \o <<" ">> \o plan.tier)

\* validator.py:45
BasicError(plan) == Err(<<>>, "Basic tier plan exceeds 1 device limit", << plan.name >>)

\* validator.py:47
MobileError(plan) == Err(<<>>, "Mobile tier plan exceeds mobile device policy", << plan.name >>)

\* validator.py:49
PremiumWarning(plan) ==
    Err(<<>>, "Premium tier plan should advertise UHD or 4K video quality", << plan.name >>)

\* validator.py:51
FreeWarning(plan) == Err(<<>>, "Plan is free with no add-ons", << plan.name >>)

\* PairOf without the lower(): region and tier are compared as stored.
PairOfCaseSensitive(plan) == << plan.region, plan.tier >>

\* validator.py:38
PairOf(plan) == << Lower(plan.region), Lower(plan.tier) >>

\* TierKey without the lower(): the stored tier is compared as it is.
TierKeyAsStored(plan) == plan.tier

\* validator.py:43
TierKey(plan) == Lower(plan.tier)

\* DeviceRuleErrors with both thresholds off by one (> 2 for > 1).
DeviceRuleErrorsOffByOne(plan) ==
    (IF Lower(plan.tier) = s_basic /\ plan.device_limit > 2 THEN << BasicError(plan) >> ELSE <<>>)
    \o (IF Lower(plan.tier) = s_mobile /\ plan.device_limit > 2 THEN << MobileError(plan) >> ELSE <<>>)

\* validator.py:44-47: the errors of the two device rules for one plan.
DeviceRuleErrors(plan) ==
    (IF TierKey(plan) = s_basic /\ plan.device_limit > 1 THEN << BasicError(plan) >> ELSE <<>>)
    \o (IF TierKey(plan) = s_mobile /\ plan.device_limit > 1 THEN << MobileError(plan) >> ELSE <<>>)

\* validator.py:48-51: the warnings of the two advisory rules for one plan.
AdvisoryWarnings(plan) ==
    (IF TierKey(plan) \in {s_premium, s_uhd}
        /\ Upper(plan.video_quality) \notin {s_UHD, s_4K}
     THEN << PremiumWarning(plan) >> ELSE <<>>)
    \o (IF plan.price.monthly = 0 /\ plan.add_ons = <<>> THEN << FreeWarning(plan) >> ELSE <<>>)

RECURSIVE RulesLoop(_, _, _)
\* validator.py:34-51: the body of the loop for plans[i..], with the
\* running state acc = [errors, warnings, seen_ids, region_tier_pairs].
RulesLoop(plans, i, acc) ==
    IF i > Len(plans) THEN acc
    ELSE LET plan == plans[i] IN
         RulesLoop(plans, i + 1,
            [errors |-> acc.errors
                        \o (IF plan.id \in acc.seen_ids THEN << DuplicateIdError(plan) >> ELSE <<>>)
                        \o DeviceRuleErrors(plan),
             warnings |-> acc.warnings
                        \o (IF PairOf(plan) \in acc.region_tier_pairs
                            THEN << DuplicatePairWarning(plan) >> ELSE <<>>)
                        \o AdvisoryWarnings(plan),
             seen_ids |-> acc.seen_ids \cup { plan.id },
             region_tier_pairs |-> acc.region_tier_pairs \cup { PairOf(plan) }])

\* The running state seeded with the sets that the previous run on the same
\* validator left behind, as if they were attributes of the instance.
InitialAccLeftOver ==
    [errors |-> <<>>, warnings |-> <<>>,
     seen_ids |-> rv_left.seen_ids, region_tier_pairs |-> rv_left.region_tier_pairs]

\* validator.py:29-32: the locals of a run, created empty by every run.
InitialAcc ==
    [errors |-> <<>>, warnings |-> <<>>, seen_ids |-> {}, region_tier_pairs |-> {}]

\* validator.py:28-52
CrossFieldRules(document) ==
    LET acc == RulesLoop(document.plans, 1, InitialAcc)
    IN [errors |-> acc.errors, warnings |-> acc.warnings]

\* Validate without the early return: the cross-field rules also run, on
\* the plans that are individually well-formed, and their findings are added.
ValidateWithoutShortCircuit(p) ==
    LET errors == SchemaErrors(p)
        sound == IF "plans" \in DOMAIN p
                 THEN SelectSeq(p.plans, LAMBDA q : PlanErrors(q, <<>>) = <<>>)
                 ELSE <<>>
        rules == CrossFieldRules(ModelValidate([plans |-> sound]))
    IN [errors |-> errors \o rules.errors, warnings |-> rules.warnings]

\* validator.py:18-26
Validate(p) ==
    LET errors == SchemaErrors(p) IN
    IF errors # <<>> THEN [errors |-> errors, warnings |-> <<>>]
    ELSE CrossFieldRules(ModelValidate(p))

----------------------------------------------------------------------------
(* Payloads explored *)

s_US == << "U","S" >>

s_us == << "u","s" >>

s_HD == << "H","D" >>

s_4k == << "4","k" >>

s_USD == << "U","S","D" >>

s_usd == << "u","s","d" >>

s_Basic == << "B","a","s","i","c" >>

s_BASIC == << "B","A","S","I","C" >>

s_bASIC == << "b","A","S","I","C" >>

s_Mobile == << "M","o","b","i","l","e" >>

s_MOBILE == << "M","O","B","I","L","E" >>

s_Premium == << "P","r","e","m","i","u","m" >>

s_standard == << "s","t","a","n","d","a","r","d" >>

s_basic_plus == << "b","a","s","i","c"," ","p","l","u","s" >>

\* obj without key.
Without(obj, key) == [k \in (DOMAIN obj) \ {key} |-> obj[k]]

\* obj with key set to val.
With(obj, key, val) == [k \in (DOMAIN obj) \cup {key} |-> IF k = key THEN val ELSE obj[k]]

\* A plan mapping with every required key and an empty add_ons list.
MkPlan(id, name, region, tier, monthly, device_limit, video_quality) ==
    [id |-> id, name |-> name, region |-> region, tier |-> tier,
     price |-> [monthly |-> monthly, currency |-> s_USD],
     device_limit |-> device_limit, video_quality |-> video_quality,
     add_ons |-> <<>>]

HdAddOn == [name |-> "HD pack", price_delta |-> 2]

\* The plan of the repaired response of test_pipeline.py.
BasePlan == MkPlan("p1", "Basic Plan", s_US, s_Basic, 9, 1, s_HD)

TierSpellings ==
    { s_basic, s_Basic, s_BASIC, s_bASIC, s_mobile, s_Mobile, s_MOBILE,
      s_premium, s_standard, s_basic_plus }

\* Structurally valid plans: tier spellings against device limits, a second
\* id, region spellings, premium/uhd tiers, free plans.
ValidPlans ==
    { MkPlan("p1", "Plan One", s_US, t, 9, d, s_HD) : t \in TierSpellings, d \in {1, 2} }
    \cup { BasePlan,
           MkPlan("p1", "Plan One", s_US, s_basic, 9, 0, s_HD),
           MkPlan("p1", "Plan One", s_US, s_MOBILE, 9, 8, s_HD),
           MkPlan("p2", "Plan Two", s_US, s_Basic, 9, 1, s_HD),
           MkPlan("p2", "Plan Two", s_us, s_BASIC, 9, 2, s_HD),
           MkPlan("p2", "Plan Two", s_us, s_basic, 9, 1, s_HD),
           MkPlan("p2", "Plan Two", s_US, s_Premium, 16, 4, s_UHD),
           MkPlan("p2", "Plan Two", s_US, s_uhd, 16, 4, s_4k),
           MkPlan("p2", "Plan Two", s_US, s_UHD, 16, 4, s_HD),
           MkPlan("p1", "Free Plan", s_US, s_standard, 0, 2, s_HD),
           With(MkPlan("p2", "Free Plan", s_US, s_Mobile, 0, 1, s_HD), "add_ons", << HdAddOn >>),
           Without(MkPlan("p2", "Plan Two", s_US, s_standard, 9, 2, s_HD), "add_ons"),
           With(BasePlan, "price", [monthly |-> 9, currency |-> s_USD, note |-> "x"]),
           With(BasePlan, "add_ons", << With(HdAddOn, "note", "x") >>),
           With(BasePlan, "description", "entry plan") }

\* Plans with at least one structural violation; several would also trip a
\* cross-field rule (basic or mobile tier above one device, free plan).
InvalidPlans ==
    { Without(MkPlan("p1", "Basic Plan", s_US, s_Basic, 9, 1, s_HD), "device_limit"),
      Without(MkPlan("p1", "No Price", s_US, s_basic, 0, 2, s_HD), "price"),
      MkPlan("p1", "Plan One", s_US, s_Basic, 9, 9, s_HD),
      MkPlan("p2", "Plan Two", s_US, s_mobile, 0, 0 - 1, s_HD),
      MkPlan("", "Plan One", s_US, s_Premium, 9, 1, s_HD),
      MkPlan("p1", "Plan One", <<>>, s_Basic, 9, 2, s_HD),
      With(MkPlan("p1", "Plan One", s_US, s_BASIC, 9, 2, s_HD), "vendor", "x"),
      With(BasePlan, "price", [monthly |-> 0, currency |-> s_usd]),
      With(BasePlan, "price", [monthly |-> 0 - 1, currency |-> s_USD]),
      With(BasePlan, "price", [currency |-> s_USD]),
      With(BasePlan, "add_ons", << HdAddOn, HdAddOn >>),
      With(BasePlan, "add_ons", << [name |-> "HD pack"] >>),
      With(BasePlan, "video_quality", << "H" >>) }

PlanPool == ValidPlans \cup InvalidPlans

\* Metadata values an LLM document may carry.
PayloadMetadata ==
    { NullValue, StrValue, MapValue(<<>>),
      MapValue([variant_label |-> "model", note |-> "n"]) }

\* Documents with a doc-level peculiarity: empty mapping, undeclared key,
\* a version, metadata of each shape.
SpecialPayloads ==
    { <<>>,
      [version |-> "1.0", plans |-> << BasePlan >>],
      [plans |-> << BasePlan >>, vendor |-> "x"],
      [version |-> "1.0"] }
    \cup { [plans |-> << BasePlan >>, metadata |-> m] : m \in PayloadMetadata }
    \cup { [plans |-> << MkPlan("p1", "Plan One", s_US, s_basic, 9, 2, s_HD) >>, metadata |-> m] :
             m \in PayloadMetadata }

\* Arguments of validate explored by SpecValidate.
ValidatorPayloads ==
    { [plans |-> ps] : ps \in UNION { [1..k -> PlanPool] : k \in 0..MaxPlans } }
    \cup SpecialPayloads

----------------------------------------------------------------------------
(* Raw LLM texts.  A text is [lines, doc]: lines is the sequence of its    *)
(* lines, each one of                                                      *)
(*    "blank"    a whitespace-only line                                    *)
(*    "~~~"      a bare fence line        "~~~yaml"  a fence with a tag     *)
(*               (the three backquotes are written ~~~)                    *)
(*    "yaml"     a block-style YAML mapping (standing for all its lines),  *)
(*               whose content is the mapping doc                          *)
(*    "- item"   a YAML sequence          "scalar"   a plain sentence       *)
(*    "{{"       text the YAML scanner rejects                             *)
(* The empty string is the text without lines.                             *)

Text(lines, doc) == [lines |-> lines, doc |-> doc]

\* Python None where a str is expected.
NoText == [none |-> TRUE]

EmptyText == Text(<<>>, <<>>)

\* Truth value of an Optional[str]: None and "" are falsy.
TruthyText(t) == t # NoText /\ t.lines # <<>>

IsFenceLine(line) == line \in { "~~~", "~~~yaml" }

RECURSIVE LStrip(_)
\* Leading whitespace removed, at the granularity of lines.
LStrip(ls) == IF ls # <<>> /\ Head(ls) = "blank" THEN LStrip(Tail(ls)) ELSE ls

RECURSIVE RStrip(_)
\* Trailing whitespace removed, at the granularity of lines.
RStrip(ls) ==
    IF ls # <<>> /\ ls[Len(ls)] = "blank" THEN RStrip(SubSeq(ls, 1, Len(ls) - 1)) ELSE ls

\* str.strip()
Strip(ls) == RStrip(LStrip(ls))

SetMax(S) == CHOOSE m \in S : \A x \in S : x <= m

\* pipeline.py:196-216
StripCodeFence(ls) ==
    LET stripped == Strip(ls) IN
    IF stripped = <<>> \/ ~IsFenceLine(stripped[1]) THEN ls
    ELSE LET closing == { idx \in 2..Len(stripped) : IsFenceLine(stripped[idx]) }
             body == IF closing = {} THEN SubSeq(stripped, 2, Len(stripped))
                     ELSE SubSeq(stripped, 2, SetMax(closing) - 1)
         IN Strip(body)

\* yaml.safe_load on the text made of the lines ls, whose "yaml" line
\* denotes the mapping doc.
SafeLoad(ls, doc) ==
    LET content == SelectSeq(ls, LAMBDA l : l # "blank") IN
    IF content = <<>> THEN [kind |-> "none", data |-> <<>>]
    ELSE IF content = << "yaml" >> THEN [kind |-> "dict", data |-> doc]
    ELSE IF content = << "- item" >> THEN [kind |-> "list", data |-> <<>>]
    ELSE IF content = << "scalar" >> THEN [kind |-> "str", data |-> <<>>]
    ELSE [kind |-> "YAMLError", data |-> <<>>]

YamlParseError == Err(<<>>, "YAML parse error", <<>>)

NotMappingError == Err(<<>>, "Model output must be a YAML mapping/object.", <<>>)

\* pipeline.py:185-194.  parse_error is <<>> for None, <<message>> otherwise.
ParseYaml(raw) ==
    LET normalized == StripCodeFence(raw.lines)
        loaded == SafeLoad(normalized, raw.doc)
    IN IF loaded.kind = "YAMLError" THEN [payload |-> <<>>, parse_error |-> << YamlParseError >>]
       ELSE IF loaded.kind # "dict" THEN [payload |-> <<>>, parse_error |-> << NotMappingError >>]
       ELSE [payload |-> loaded.data, parse_error |-> <<>>]

\* Documents an LLM may answer with: valid ones with and without warnings,
\* structurally invalid ones, rule-breaking ones, and every metadata shape.
PipelineDocs ==
    { [plans |-> << q >>] : q \in
        { BasePlan,
          MkPlan("p1", "Plan One", s_US, s_BASIC, 9, 2, s_HD),
          MkPlan("p2", "Plan Two", s_US, s_mobile, 9, 2, s_HD),
          Without(BasePlan, "device_limit"),
          MkPlan("p1", "Plan One", s_US, s_standard, 9, 9, s_HD),
          MkPlan("p1", "Free Plan", s_US, s_standard, 0, 2, s_HD),
          MkPlan("p2", "Plan Two", s_US, s_Premium, 16, 4, s_HD) } }
    \cup { [plans |-> << BasePlan, MkPlan("p2", "Plan Two", s_US, s_Premium, 16, 4, s_UHD) >>],
           [plans |-> << BasePlan, MkPlan("p2", "Plan Two", s_us, s_basic, 9, 1, s_HD) >>],
           [plans |-> << MkPlan("p1", "Free Plan", s_US, s_standard, 0, 2, s_HD), BasePlan >>],
           [plans |-> << MkPlan("p2", "Plan Two", s_US, s_Premium, 16, 4, s_HD),
                         MkPlan("p1", "Free Plan", s_US, s_standard, 0, 2, s_HD) >>],
           <<>>,
           [plans |-> << MkPlan("p1", "Plan One", s_US, s_basic, 9, 2, s_HD) >>,
            metadata |-> NullValue] }
    \cup { [plans |-> << BasePlan >>, metadata |-> m] : m \in PayloadMetadata }

\* Texts an LLM may answer with.
RawTexts ==
    { Text(<< "yaml" >>, d) : d \in PipelineDocs }
    \cup { Text(<< "~~~yaml", "yaml", "~~~" >>, d) :
             d \in { [plans |-> << BasePlan >>], [plans |-> << Without(BasePlan, "device_limit") >>] } }
    \cup { Text(<< "blank", "yaml", "blank" >>, [plans |-> << BasePlan >>]),
           Text(<< "~~~", "yaml" >>, [plans |-> << BasePlan >>]),
           Text(<< "scalar", "~~~yaml", "yaml", "~~~" >>, [plans |-> << BasePlan >>]),
           EmptyText,
           Text(<< "blank" >>, <<>>),
           Text(<< "~~~" >>, <<>>),
           Text(<< "{{" >>, <<>>),
           Text(<< "- item" >>, <<>>),
           Text(<< "scalar" >>, <<>>) }

\* Caller metadata: None, an empty mapping, the tags of an A/B variant.
NoMetadata == NullValue

CallerMetadata ==
    { NoMetadata, MapValue(<<>>),
      MapValue([variant_label |-> "A", variant_focus |-> "focus"]) }

\* Truth value of an Optional[dict]: None and {} are falsy.
TruthyDict(m) == m.ty = "map" /\ DOMAIN m.kv # {}

----------------------------------------------------------------------------
(* Prompt composition: PlanGenerationPipeline._compose_prompt *)

InvalidOutputBullet == Err(<<>>, "Invalid output.", <<>>)

PromptSections == << "system_prompt", "user_brief", "retrieval_context", "yaml_schema" >>

\* pipeline.py:171-179: the repair block.
RepairBlock(prev, errs) ==
    [kind |-> "repair",
     previous |-> Text(Strip(prev.lines), prev.doc),
     feedback |-> IF errs = <<>> THEN << InvalidOutputBullet >> ELSE errs]

\* pipeline.py:181
DraftFresh == [kind |-> "draft", previous |-> EmptyText, feedback |-> <<>>]

\* pipeline.py:142-183
ComposePrompt(n, prev, errs) ==
    [sections |-> PromptSections,
     tail |-> IF n > 1 /\ TruthyText(prev) THEN RepairBlock(prev, errs) ELSE DraftFresh]

----------------------------------------------------------------------------
(* generate_document: pipeline.py:43-91 *)

NoPrompt == [none |-> TRUE]

NoResult == [none |-> TRUE]

NoException == [type |-> "none", reason |-> "none", attempts |-> 0, errors |-> <<>>]

NoLast == [none |-> TRUE]

UserPrompt == "user_brief"

\* pipeline.py:22 raised at pipeline.py:69
LLMRequestFailed ==
    [type |-> "PlanGenerationError", reason |-> "LLM request failed",
     attempts |-> 0, errors |-> <<>>]

\* pipeline.py:89-91
UnableToGenerate(n, errs) ==
    [type |-> "PlanGenerationError", reason |-> "Unable to generate a valid plan",
     attempts |-> n, errors |-> errs]

\* pipeline.py:77 when payload["metadata"] is not a dict: it has no update()
NoUpdateAttribute ==
    [type |-> "AttributeError", reason |-> "object has no attribute 'update'",
     attempts |-> 0, errors |-> <<>>]

\* AttemptBudget that ignores the max_attempts argument.
AttemptBudgetFromConfigOnly(maxAttempts, maxRetries) == maxRetries

\* pipeline.py:50
AttemptBudget(maxAttempts, maxRetries) ==
    IF maxAttempts # 0 THEN maxAttempts ELSE maxRetries

ValidatorIdle == v_payload = <<>> /\ v_out = <<>> /\ v_pc = "idle"

\* No validate call made yet on the instance: the object holds only
\* self._validator (validator.py:15-16), which no call rebinds.
NoneLeft == [seen_ids |-> {}, region_tier_pairs |-> {}]

RevalidateIdle ==
    /\ rv_payload = <<>>
    /\ rv_first = <<>>
    /\ rv_out = <<>>
    /\ rv_n = 0
    /\ rv_left = NoneLeft
    /\ rv_last = "idle"
    /\ rv_between = 0

\* generate_ab_variants is not called.
ABIdle ==
    /\ ab_enabled = TRUE
    /\ ab_max_retries = 1
    /\ ab_labels_arg = <<>>
    /\ ab_labels = <<>>
    /\ ab_pc = "idle"
    /\ br = <<>>
    /\ ab_j = 0
    /\ ab_variants = <<>>
    /\ ab_return = <<>>
    /\ ab_raised = NoException
    /\ ab_jcalls = 0
    /\ ab_latest = NoLast
    /\ ab_at_raise = <<>>

\* retrieve is not called; no corpus is loaded.
RetrieverIdle ==
    /\ r_examples = <<>>
    /\ r_index = <<>>
    /\ r_query = <<>>
    /\ r_top_k = 0
    /\ r_out = <<>>
    /\ r_pc = "idle"

Init ==
    /\ max_retries \in 1..MaxBudget
    /\ max_attempts \in 0..MaxBudget
    /\ metadata \in CallerMetadata
    /\ pc = "start"
    /\ attempts = 0
    /\ attempt = 0
    /\ prior_yaml = NoText
    /\ validation_errors = <<>>
    /\ warnings = <<>>
    /\ prompt = NoPrompt
    /\ yaml_output = NoText
    /\ payload = <<>>
    /\ result = NoResult
    /\ raised = NoException
    /\ llm_calls = 0
    /\ validate_calls = 0
    /\ last = NoLast
    /\ llm_done = 0
    /\ settled = 0
    /\ ValidatorIdle
    /\ RevalidateIdle
    /\ ABIdle
    /\ RetrieverIdle

\* pipeline.py:50-56
Begin ==
    /\ pc = "start"
    /\ attempts' = AttemptBudget(max_attempts, max_retries)
    /\ prior_yaml' = NoText
    /\ validation_errors' = <<>>
    /\ warnings' = <<>>
    /\ pc' = "loop"
    /\ UNCHANGED << max_retries, max_attempts, metadata, attempt, prompt, yaml_output,
                    payload, result, raised, llm_calls, validate_calls, last >>
    /\ UNCHANGED << llm_done, settled >>
    /\ UNCHANGED outsidePipeline

\* ComposeAndCall that does not wait for the response at hand to be parsed.
ComposeAndCallEarly ==
    /\ pc \in {"loop", "parse"}
    /\ attempt < attempts
    /\ attempt' = attempt + 1
    /\ prompt' = ComposePrompt(attempt + 1, prior_yaml, validation_errors)
    /\ llm_calls' = llm_calls + 1
    /\ pc' = "llm"
    /\ UNCHANGED << max_retries, max_attempts, metadata, attempts, prior_yaml,
                    validation_errors, warnings, yaml_output, payload, result, raised,
                    validate_calls, last >>
    /\ UNCHANGED << llm_done, settled >>
    /\ UNCHANGED outsidePipeline

\* pipeline.py:58-67: next iteration of the loop, up to the await.
ComposeAndCall ==
    /\ pc = "loop"
    /\ attempt < attempts
    /\ attempt' = attempt + 1
    /\ prompt' = ComposePrompt(attempt + 1, prior_yaml, validation_errors)
    /\ llm_calls' = llm_calls + 1
    /\ pc' = "llm"
    /\ UNCHANGED << max_retries, max_attempts, metadata, attempts, prior_yaml,
                    validation_errors, warnings, yaml_output, payload, result, raised,
                    validate_calls, last >>
    /\ UNCHANGED << llm_done, settled >>
    /\ UNCHANGED outsidePipeline

\* pipeline.py:67,70: llm.generate returns a text.
LLMReturn ==
    /\ pc = "llm"
    /\ \E text \in RawTexts :
          /\ yaml_output' = text
          /\ prior_yaml' = text
    /\ pc' = "parse"
    /\ UNCHANGED << max_retries, max_attempts, metadata, attempts, attempt,
                    validation_errors, warnings, prompt, payload, result, raised,
                    llm_calls, validate_calls, last >>
    /\ llm_done' = llm_done + 1
    /\ UNCHANGED settled
    /\ UNCHANGED outsidePipeline

\* LLMFail that swallows the failure and goes on with the next attempt.
LLMFailRetried ==
    /\ pc = "llm"
    /\ pc' = "loop"
    /\ UNCHANGED << max_retries, max_attempts, metadata, attempts, attempt, prior_yaml,
                    validation_errors, warnings, prompt, yaml_output, payload, result,
                    raised, llm_calls, validate_calls, last >>
    /\ llm_done' = llm_done + 1
    /\ UNCHANGED settled
    /\ UNCHANGED outsidePipeline

\* pipeline.py:68-69: llm.generate raises.
LLMFail ==
    /\ pc = "llm"
    /\ raised' = LLMRequestFailed
    /\ pc' = "done"
    /\ UNCHANGED << max_retries, max_attempts, metadata, attempts, attempt, prior_yaml,
                    validation_errors, warnings, prompt, yaml_output, payload, result,
                    llm_calls, validate_calls, last >>
    /\ llm_done' = llm_done + 1
    /\ UNCHANGED settled
    /\ UNCHANGED outsidePipeline

\* What is remembered of a completed attempt.
Completed(kind, text, merged, errs, warns) ==
    [kind |-> kind, text |-> text, payload |-> merged, errors |-> errs, warnings |-> warns]

\* ParseFailed that never sees a failure: the `continue` is not taken.
ParseFailedNever(parsed) == FALSE

\* pipeline.py:72
ParseFailed(parsed) == parsed.parse_error # <<>>

\* pipeline.py:71-74
Parse ==
    /\ pc = "parse"
    /\ LET parsed == ParseYaml(yaml_output) IN
          /\ payload' = parsed.payload
          /\ IF ParseFailed(parsed)
             THEN /\ validation_errors' = parsed.parse_error
                  /\ last' = Completed("parse_error", yaml_output, <<>>, parsed.parse_error, <<>>)
                  /\ pc' = "loop"
             ELSE /\ UNCHANGED << validation_errors, last >>
                  /\ pc' = "merge"
    /\ UNCHANGED << max_retries, max_attempts, metadata, attempts, attempt, prior_yaml,
                    warnings, prompt, yaml_output, result, raised, llm_calls,
                    validate_calls >>
    /\ settled' = IF ParseFailed(ParseYaml(yaml_output)) THEN settled + 1 ELSE settled
    /\ UNCHANGED llm_done
    /\ UNCHANGED outsidePipeline

\* MergeMetadata in which the model's entries win over the caller's.
MergeMetadataModelWins(p, m) ==
    IF "metadata" \notin DOMAIN p THEN With(p, "metadata", MapValue(m.kv))
    ELSE With(p, "metadata", MapValue(DictUpdate(m.kv, p.metadata.kv)))

\* pipeline.py:77: payload.setdefault("metadata", {}).update(metadata)
MergeMetadata(p, m) ==
    IF "metadata" \notin DOMAIN p THEN With(p, "metadata", MapValue(m.kv))
    ELSE With(p, "metadata", MapValue(DictUpdate(p.metadata.kv, m.kv)))

\* pipeline.py:76-77
Merge ==
    /\ pc = "merge"
    /\ IF ~TruthyDict(metadata)
       THEN /\ pc' = "validate"
            /\ UNCHANGED << payload, raised, last >>
       ELSE IF "metadata" \in DOMAIN payload /\ payload.metadata.ty # "map"
       THEN /\ raised' = NoUpdateAttribute
            /\ last' = Completed("crash", yaml_output, payload, <<>>, <<>>)
            /\ pc' = "done"
            /\ UNCHANGED payload
       ELSE /\ payload' = MergeMetadata(payload, metadata)
            /\ pc' = "validate"
            /\ UNCHANGED << raised, last >>
    /\ UNCHANGED << max_retries, max_attempts, metadata, attempts, attempt, prior_yaml,
                    validation_errors, warnings, prompt, yaml_output, result,
                    llm_calls, validate_calls >>
    /\ UNCHANGED << llm_done, settled >>
    /\ UNCHANGED outsidePipeline

\* MkResult that adds the new warnings to those of the attempt before.
MkResultKeepingWarnings(text, p, warns) ==
    [prompt |-> UserPrompt, yaml_output |-> text,
     document |-> ModelValidate(p), validation_warnings |-> warnings \o warns]

\* pipeline.py:82-87
MkResult(text, p, warns) ==
    [prompt |-> UserPrompt, yaml_output |-> text,
     document |-> ModelValidate(p), validation_warnings |-> warns]

\* Accepted that also wants the warnings list empty.
AcceptedOnlyWithoutWarnings(out) == out.errors = <<>> /\ out.warnings = <<>>

\* pipeline.py:80
Accepted(out) == out.errors = <<>>

\* pipeline.py:79-87
ValidateAndReturn ==
    /\ pc = "validate"
    /\ LET out == Validate(payload) IN
          /\ validation_errors' = out.errors
          /\ warnings' = out.warnings
          /\ IF Accepted(out)
             THEN /\ result' = MkResult(yaml_output, payload, out.warnings)
                  /\ last' = Completed("valid", yaml_output, payload, out.errors, out.warnings)
                  /\ pc' = "done"
             ELSE /\ last' = Completed("invalid", yaml_output, payload, out.errors, out.warnings)
                  /\ pc' = "loop"
                  /\ UNCHANGED result
    /\ validate_calls' = validate_calls + 1
    /\ UNCHANGED << max_retries, max_attempts, metadata, attempts, attempt, prior_yaml,
                    prompt, yaml_output, payload, raised, llm_calls >>
    /\ settled' = settled + 1
    /\ UNCHANGED llm_done
    /\ UNCHANGED outsidePipeline

\* pipeline.py:89-91: the loop is over.
Exhaust ==
    /\ pc = "loop"
    /\ attempt >= attempts
    /\ raised' = UnableToGenerate(attempts, validation_errors)
    /\ pc' = "done"
    /\ UNCHANGED << max_retries, max_attempts, metadata, attempts, attempt, prior_yaml,
                    validation_errors, warnings, prompt, yaml_output, payload, result,
                    llm_calls, validate_calls, last >>
    /\ UNCHANGED << llm_done, settled >>
    /\ UNCHANGED outsidePipeline

Next ==
    \/ Begin
    \/ ComposeAndCall
    \/ LLMReturn
    \/ LLMFail
    \/ Parse
    \/ Merge
    \/ ValidateAndReturn
    \/ Exhaust

Spec == Init /\ [][Next]_vars

----------------------------------------------------------------------------
(* PlanValidator.validate as a function of its argument *)

PipelineIdle ==
    /\ max_retries = 1
    /\ max_attempts = 0
    /\ metadata = NoMetadata
    /\ pc = "idle"
    /\ attempts = 0
    /\ attempt = 0
    /\ prior_yaml = NoText
    /\ validation_errors = <<>>
    /\ warnings = <<>>
    /\ prompt = NoPrompt
    /\ yaml_output = NoText
    /\ payload = <<>>
    /\ result = NoResult
    /\ raised = NoException
    /\ llm_calls = 0
    /\ validate_calls = 0
    /\ last = NoLast
    /\ llm_done = 0
    /\ settled = 0

InitValidate ==
    /\ v_payload \in ValidatorPayloads
    /\ v_out = <<>>
    /\ v_pc = "call"
    /\ PipelineIdle
    /\ RevalidateIdle
    /\ ABIdle
    /\ RetrieverIdle

\* validator.py:18-26
CallValidate ==
    /\ v_pc = "call"
    /\ v_out' = Validate(v_payload)
    /\ v_pc' = "returned"
    /\ UNCHANGED v_payload
    /\ UNCHANGED << pipelineVars, revalidateVars, abVars, retrieverVars >>

NextValidate == CallValidate

SpecValidate == InitValidate /\ [][NextValidate]_vars

----------------------------------------------------------------------------
(* One PlanValidator instance validating payloads again and again *)

\* Plans of the payloads validated repeatedly: clean, warned and rejected
\* ones, sharing ids, regions and tiers.
RevalidatePlans ==
    { BasePlan,
      MkPlan("p2", "Plan Two", s_us, s_basic, 9, 1, s_HD),
      MkPlan("p1", "Plan One", s_US, s_basic, 9, 2, s_HD),
      MkPlan("p2", "Plan Two", s_US, s_UHD, 16, 4, s_HD),
      Without(BasePlan, "device_limit") }

RevalidatePayloads ==
    { [plans |-> ps] : ps \in UNION { [1..k -> RevalidatePlans] : k \in 0..MaxPlans } }

\* Payloads of the calls made in between: they carry the ids and the
\* (region, tier) pairs of the plans above; the last one is rejected by the
\* structural phase.
OtherPayloads ==
    { [plans |-> << BasePlan >>],
      [plans |-> << MkPlan("p2", "Plan Two", s_us, s_basic, 9, 1, s_HD),
                    MkPlan("p1", "Plan One", s_US, s_basic, 9, 2, s_HD) >>],
      [version |-> "1.0"] }

\* validator.py:31-41: seen_ids and region_tier_pairs at the end of the run
\* of validate(p); a call that returns at validator.py:22 creates none.
LeftBy(p) ==
    IF SchemaErrors(p) # <<>> THEN rv_left
    ELSE LET acc == RulesLoop(ModelValidate(p).plans, 1, InitialAcc)
         IN [seen_ids |-> acc.seen_ids, region_tier_pairs |-> acc.region_tier_pairs]

InitRevalidate ==
    /\ rv_payload \in RevalidatePayloads
    /\ rv_first = <<>>
    /\ rv_out = <<>>
    /\ rv_n = 0
    /\ rv_left = NoneLeft
    /\ rv_last = "none"
    /\ rv_between = 0
    /\ PipelineIdle
    /\ ValidatorIdle
    /\ ABIdle
    /\ RetrieverIdle

\* validator.py:18-26: validator.validate(rv_payload)
ValidateTarget ==
    /\ rv_n < MaxCalls
    /\ LET out == Validate(rv_payload) IN
       /\ rv_out' = out
       /\ rv_first' = IF rv_first = <<>> THEN << out >> ELSE rv_first
    /\ rv_left' = LeftBy(rv_payload)
    /\ rv_n' = rv_n + 1
    /\ rv_last' = "target"
    /\ UNCHANGED << rv_payload, rv_between >>
    /\ UNCHANGED << pipelineVars, validatorVars, abVars, retrieverVars >>

\* validator.py:18-26: validator.validate(q) for another payload q
ValidateOther ==
    /\ rv_n < MaxCalls
    /\ \E q \in OtherPayloads :
          /\ q # rv_payload
          /\ rv_left' = LeftBy(q)
    /\ rv_n' = rv_n + 1
    /\ rv_last' = "other"
    /\ rv_between' = IF rv_first = <<>> THEN 0 ELSE rv_between + 1
    /\ UNCHANGED << rv_payload, rv_first, rv_out >>
    /\ UNCHANGED << pipelineVars, validatorVars, abVars, retrieverVars >>

NextRevalidate == ValidateTarget \/ ValidateOther

SpecRevalidate == InitRevalidate /\ [][NextRevalidate]_vars

----------------------------------------------------------------------------
(* generate_ab_variants: pipeline.py:93-140.  Every label gets a coroutine  *)
(* of generate_document; asyncio.gather runs them as tasks of one event     *)
(* loop, so a task runs from one await of llm.generate to the next without  *)
(* interruption, and the tasks interleave at those awaits.                  *)

\* pipeline.py:99
ABTestingDisabled ==
    [type |-> "PlanGenerationError", reason |-> "A/B testing disabled in configuration.",
     attempts |-> 0, errors |-> <<>>]

\* pipeline.py:135: min() of an empty list
EmptyMin ==
    [type |-> "ValueError", reason |-> "min() arg is an empty sequence",
     attempts |-> 0, errors |-> <<>>]

\* pipeline.py:100: ("A", "B")
DefaultLabels == << "A", "B" >>

\* pipeline.py:100: list(labels or ("A", "B")); None and an empty list are <<>>.
LabelsOf(arg) == IF arg = <<>> THEN DefaultLabels ELSE arg

\* Values of the labels argument explored.
LabelArguments == { <<>>, << "B", "A" >>, << "C" >>, << "A", "A" >> }

\* pipeline.py:101-104, 107
Focus(label) ==
    IF label = "A" THEN "Optimize for entry-level affordability and retention."
    ELSE IF label = "B" THEN "Optimize for premium upsell and average revenue per user."
    ELSE "Variant " \o label \o " should explore a distinct positioning."

\* pipeline.py:108
VariantPrompt(label) == [user_prompt |-> UserPrompt, label |-> label, focus |-> Focus(label)]

\* pipeline.py:109
VariantMetadata(label) ==
    MapValue([variant_label |-> label, variant_focus |-> Focus(label)])

\* pipeline.py:110: the coroutine generate_document(variant_prompt,
\* metadata=metadata), not started yet; its fields are its arguments and
\* locals, result and raised are how it ended, calls counts its
\* llm.generate calls and last remembers its latest completed attempt.
NewBranch(label) ==
    [pc |-> "created", user_prompt |-> VariantPrompt(label),
     metadata |-> VariantMetadata(label), attempts |-> 0, attempt |-> 0,
     prior_yaml |-> NoText, validation_errors |-> <<>>, warnings |-> <<>>,
     prompt |-> NoPrompt, result |-> NoResult, raised |-> NoException,
     calls |-> 0, last |-> NoLast]

\* What the latest completed attempt of any task left, in place of the
\* task's own locals.
PreviousAttemptOfAnyTask(b) ==
    IF ab_latest = NoLast THEN [yaml |-> NoText, errors |-> <<>>]
    ELSE [yaml |-> ab_latest.text, errors |-> ab_latest.errors]

\* pipeline.py:62-63: prior_yaml and validation_errors of this coroutine.
PreviousAttempt(b) == [yaml |-> b.prior_yaml, errors |-> b.validation_errors]

\* pipeline.py:58-67 and 89-91: the next iteration up to the await of
\* llm.generate, or the raise after the last one.
NextAttempt(b) ==
    IF b.attempt < b.attempts
    THEN [b EXCEPT !.attempt = b.attempt + 1,
                   !.prompt = [user_prompt |-> b.user_prompt,
                               body |-> ComposePrompt(b.attempt + 1, PreviousAttempt(b).yaml,
                                                      PreviousAttempt(b).errors)],
                   !.calls = b.calls + 1,
                   !.pc = "llm"]
    ELSE [b EXCEPT !.raised = UnableToGenerate(b.attempts, b.validation_errors),
                   !.pc = "raised"]

\* pipeline.py:50-67: the task runs up to its first await; max_attempts is
\* not passed (pipeline.py:110), so it is None.
BranchBegin(b, maxRetries) == NextAttempt([b EXCEPT !.attempts = AttemptBudget(0, maxRetries)])

\* pipeline.py:82-87
BranchResult(b, text, p, warns) == [MkResult(text, p, warns) EXCEPT !.prompt = b.user_prompt]

\* pipeline.py:70-91: from the return of llm.generate to the next await,
\* the return or the raise.
AfterResponse(b, text) ==
    LET parsed == ParseYaml(text)
        b1 == [b EXCEPT !.prior_yaml = text]
    IN
    IF ParseFailed(parsed)
    THEN NextAttempt([b1 EXCEPT !.validation_errors = parsed.parse_error,
                                !.last = Completed("parse_error", text, <<>>,
                                                   parsed.parse_error, <<>>)])
    ELSE IF /\ TruthyDict(b.metadata)
            /\ "metadata" \in DOMAIN parsed.payload
            /\ parsed.payload.metadata.ty # "map"
    THEN [b1 EXCEPT !.raised = NoUpdateAttribute, !.pc = "raised",
                    !.last = Completed("crash", text, parsed.payload, <<>>, <<>>)]
    ELSE LET merged == IF TruthyDict(b.metadata)
                       THEN MergeMetadata(parsed.payload, b.metadata)
                       ELSE parsed.payload
             out == Validate(merged)
             b2 == [b1 EXCEPT !.validation_errors = out.errors, !.warnings = out.warnings]
         IN IF Accepted(out)
            THEN [b2 EXCEPT !.result = BranchResult(b, text, merged, out.warnings),
                            !.pc = "returned",
                            !.last = Completed("valid", text, merged, out.errors, out.warnings)]
            ELSE NextAttempt([b2 EXCEPT !.last = Completed("invalid", text, merged,
                                                           out.errors, out.warnings)])

\* Texts llm.generate may answer a generation prompt with: two valid
\* documents (the second lists its dearer plan first), a plan without
\* device_limit, the empty string, a document whose metadata is null, and a
\* document with an empty plans list.
ABTexts ==
    { Text(<< "yaml" >>, [plans |-> << BasePlan >>]),
      Text(<< "yaml" >>, [plans |-> << MkPlan("p2", "Plan Two", s_US, s_Premium, 16, 4, s_UHD),
                                       BasePlan >>]),
      Text(<< "yaml" >>, [plans |-> << Without(BasePlan, "device_limit") >>]),
      EmptyText,
      Text(<< "yaml" >>, [plans |-> << BasePlan >>, metadata |-> NullValue]),
      Text(<< "yaml" >>, [plans |-> <<>>]) }

\* Texts llm.generate may answer a justification prompt with: sentences,
\* sentences inside blank lines, the empty string, blank lines only.
JustificationTexts ==
    { Text(<< "scalar" >>, <<>>),
      Text(<< "blank", "scalar", "blank" >>, <<>>),
      EmptyText,
      Text(<< "blank" >>, <<>>) }

\* pipeline.py:127: response.strip().  A justification is a str: its lines,
\* and for the fallback text the numbers and the currency it spells out.
StrippedResponse(text) ==
    [lines |-> Strip(text.lines), source |-> "llm",
     min_price |-> 0, max_price |-> 0, currency |-> <<>>]

SetMin(S) == CHOOSE m \in S : \A x \in S : m <= x

\* The fallback text built from the first plan's price alone.
FallbackFromFirstPlan(res) ==
    LET plans == res.document.plans IN
    [lines |-> << "scalar", "scalar" >>, source |-> "fallback",
     min_price |-> plans[1].price.monthly, max_price |-> plans[1].price.monthly,
     currency |-> plans[1].price.currency]

\* pipeline.py:133-140, for a document with at least one plan.
FallbackJustification(res) ==
    LET plans == res.document.plans
        monthly_prices == { plans[i].price.monthly : i \in DOMAIN plans }
    IN [lines |-> << "scalar", "scalar" >>, source |-> "fallback",
        min_price |-> SetMin(monthly_prices), max_price |-> SetMax(monthly_prices),
        currency |-> plans[1].price.currency]

\* pipeline.py:116
PlanVariant(label, res, justification) ==
    [label |-> label, result |-> res, justification |-> justification]

InitAB ==
    /\ ab_enabled \in BOOLEAN
    /\ ab_max_retries \in 1..MaxABRetries
    /\ ab_labels_arg \in LabelArguments
    /\ ab_labels = <<>>
    /\ ab_pc = "start"
    /\ br = <<>>
    /\ ab_j = 0
    /\ ab_variants = <<>>
    /\ ab_return = <<>>
    /\ ab_raised = NoException
    /\ ab_jcalls = 0
    /\ ab_latest = NoLast
    /\ ab_at_raise = <<>>
    /\ PipelineIdle
    /\ ValidatorIdle
    /\ RevalidateIdle
    /\ RetrieverIdle

abConfig == << ab_enabled, ab_max_retries, ab_labels_arg >>

\* ABDisabled that never refuses.
ABDisabledNever(enabled) == FALSE

\* pipeline.py:98
ABDisabled(enabled) == ~enabled

\* pipeline.py:98-99
ABRefuse ==
    /\ ab_pc = "start"
    /\ ABDisabled(ab_enabled)
    /\ ab_raised' = ABTestingDisabled
    /\ ab_pc' = "failed"
    /\ UNCHANGED << abConfig, ab_labels, br, ab_j, ab_variants, ab_return, ab_jcalls, ab_latest, ab_at_raise >>
    /\ UNCHANGED << pipelineVars, validatorVars, revalidateVars, retrieverVars >>

\* pipeline.py:100-112: the coroutines are created and handed to gather.
ABCreateTasks ==
    /\ ab_pc = "start"
    /\ ~ABDisabled(ab_enabled)
    /\ ab_labels' = LabelsOf(ab_labels_arg)
    /\ br' = [i \in 1..Len(LabelsOf(ab_labels_arg)) |-> NewBranch(LabelsOf(ab_labels_arg)[i])]
    /\ ab_pc' = "gather"
    /\ UNCHANGED << abConfig, ab_j, ab_variants, ab_return, ab_raised, ab_jcalls, ab_latest, ab_at_raise >>
    /\ UNCHANGED << pipelineVars, validatorVars, revalidateVars, retrieverVars >>

\* GatherDone as if gather returned with the first result.
GatherDoneAtFirstResult(i, nb) == nb.pc = "returned"

\* pipeline.py:112: gather returns when task i, now in state nb, was the
\* last one to return.
GatherDone(i, nb) ==
    /\ nb.pc = "returned"
    /\ \A k \in DOMAIN br : k # i => br[k].pc = "returned"

\* BranchStep in which gather, when a task raises, cancels the tasks that
\* have not ended: they end there, with CancelledError.
BranchStepCancelling(i, nb) ==
    /\ br' = IF ab_pc = "gather" /\ nb.pc = "raised"
             THEN [k \in DOMAIN br |->
                     IF k = i THEN nb
                     ELSE IF br[k].pc \in {"created", "llm"}
                          THEN [br[k] EXCEPT !.pc = "raised",
                                            !.raised = [type |-> "CancelledError",
                                                        reason |-> "cancelled",
                                                        attempts |-> 0, errors |-> <<>>]]
                          ELSE br[k]]
             ELSE [br EXCEPT ![i] = nb]
    /\ ab_latest' = IF nb.last # br[i].last THEN nb.last ELSE ab_latest
    /\ IF ab_pc = "gather" /\ nb.pc = "raised"
       THEN /\ ab_pc' = "failed"
            /\ ab_raised' = nb.raised
            /\ ab_at_raise' = br'
            /\ UNCHANGED ab_j
       ELSE IF ab_pc = "gather" /\ GatherDone(i, nb)
       THEN /\ ab_pc' = "justify"
            /\ ab_j' = 1
            /\ UNCHANGED << ab_raised, ab_at_raise >>
       ELSE UNCHANGED << ab_pc, ab_raised, ab_j, ab_at_raise >>
    /\ UNCHANGED << abConfig, ab_labels, ab_variants, ab_return, ab_jcalls >>
    /\ UNCHANGED << pipelineVars, validatorVars, revalidateVars, retrieverVars >>

\* pipeline.py:112: task i went on to the state nb.  While gather is
\* awaited, the first task that raises makes gather raise its exception, and
\* the return of the last task makes gather return the results; the other
\* tasks are left running either way.
BranchStep(i, nb) ==
    /\ br' = [br EXCEPT ![i] = nb]
    /\ ab_latest' = IF nb.last # br[i].last THEN nb.last ELSE ab_latest
    /\ IF ab_pc = "gather" /\ nb.pc = "raised"
       THEN /\ ab_pc' = "failed"
            /\ ab_raised' = nb.raised
            /\ ab_at_raise' = br'
            /\ UNCHANGED ab_j
       ELSE IF ab_pc = "gather" /\ GatherDone(i, nb)
       THEN /\ ab_pc' = "justify"
            /\ ab_j' = 1
            /\ UNCHANGED << ab_raised, ab_at_raise >>
       ELSE UNCHANGED << ab_pc, ab_raised, ab_j, ab_at_raise >>
    /\ UNCHANGED << abConfig, ab_labels, ab_variants, ab_return, ab_jcalls >>
    /\ UNCHANGED << pipelineVars, validatorVars, revalidateVars, retrieverVars >>

\* pipeline.py:50-67: a task starts and runs up to its first llm.generate.
BranchStart(i) ==
    /\ br[i].pc = "created"
    /\ BranchStep(i, BranchBegin(br[i], ab_max_retries))

\* pipeline.py:67, 70-91: llm.generate returns a text to task i.
BranchLLMReturn(i) ==
    /\ br[i].pc = "llm"
    /\ \E text \in ABTexts : BranchStep(i, AfterResponse(br[i], text))

\* pipeline.py:68-69: llm.generate raises in task i.
BranchLLMFail(i) ==
    /\ br[i].pc = "llm"
    /\ BranchStep(i, [br[i] EXCEPT !.raised = LLMRequestFailed, !.pc = "raised"])

\* pipeline.py:114-115, 120-126: the justification request for label ab_j.
JustifyCall ==
    /\ ab_pc = "justify"
    /\ ab_jcalls' = ab_jcalls + 1
    /\ ab_pc' = "jllm"
    /\ UNCHANGED << abConfig, ab_labels, br, ab_j, ab_variants, ab_return, ab_raised, ab_latest, ab_at_raise >>
    /\ UNCHANGED << pipelineVars, validatorVars, revalidateVars, retrieverVars >>

\* pipeline.py:116-117: the variant of label ab_j is appended; after the
\* last label the list is returned.
AppendVariant(justification) ==
    /\ ab_variants' = Append(ab_variants,
                             PlanVariant(ab_labels[ab_j], br[ab_j].result, justification))
    /\ IF ab_j = Len(ab_labels)
       THEN /\ ab_return' = << ab_variants' >>
            /\ ab_pc' = "returned"
            /\ UNCHANGED ab_j
       ELSE /\ ab_j' = ab_j + 1
            /\ ab_pc' = "justify"
            /\ UNCHANGED ab_return
    /\ UNCHANGED ab_raised

\* pipeline.py:126-127: the justification request returns a text.
JustifyReturn ==
    /\ ab_pc = "jllm"
    /\ \E text \in JustificationTexts : AppendVariant(StrippedResponse(text))
    /\ UNCHANGED << abConfig, ab_labels, br, ab_jcalls, ab_latest, ab_at_raise >>
    /\ UNCHANGED << pipelineVars, validatorVars, revalidateVars, retrieverVars >>

\* pipeline.py:128-129, 133-140: the justification request raises, and the
\* fallback text is built; min() raises on a document without plans.
JustifyFail ==
    /\ ab_pc = "jllm"
    /\ IF br[ab_j].result.document.plans = <<>>
       THEN /\ ab_raised' = EmptyMin
            /\ ab_pc' = "failed"
            /\ UNCHANGED << ab_j, ab_variants, ab_return >>
       ELSE AppendVariant(FallbackJustification(br[ab_j].result))
    /\ UNCHANGED << abConfig, ab_labels, br, ab_jcalls, ab_latest, ab_at_raise >>
    /\ UNCHANGED << pipelineVars, validatorVars, revalidateVars, retrieverVars >>

NextAB ==
    \/ ABRefuse
    \/ ABCreateTasks
    \/ \E i \in DOMAIN br : BranchStart(i)
    \/ \E i \in DOMAIN br : BranchLLMReturn(i)
    \/ \E i \in DOMAIN br : BranchLLMFail(i)
    \/ JustifyCall
    \/ JustifyReturn
    \/ JustifyFail

SpecAB == InitAB /\ [][NextAB]_vars

----------------------------------------------------------------------------
(* ExampleRetriever: retrieval.py:36-91.  Positions in the corpus are       *)
(* counted from 1.  A score is kept in thousandths.                         *)

\* Examples a corpus file may hold: the fields that retrieval reads.
ExamplePool ==
    { [id |-> "ex1", title |-> << "B","a","s","i","c" >>,
       region |-> << "U","S" >>, tier |-> << "b","a","s","i","c" >>, devices |-> 1,
       notes |-> << "l","o","w"," ","c","o","s","t" >>],
      [id |-> "ex2", title |-> << "P","r","e","m","i","u","m"," ","U","H","D" >>,
       region |-> << "U","S" >>, tier |-> << "p","r","e","m","i","u","m" >>, devices |-> 4,
       notes |-> << "u","h","d"," ","p","l","u","s" >>],
      [id |-> "ex3", title |-> << "M","o","b","i","l","e" >>,
       region |-> << "I","N" >>, tier |-> << "m","o","b","i","l","e" >>, devices |-> 1,
       notes |-> << "i","n"," ","a","p","p" >>],
      [id |-> "ex4", title |-> << "B","a","s","i","c"," ","P","l","u","s" >>,
       region |-> << "U","S" >>, tier |-> << "b","a","s","i","c" >>, devices |-> 2,
       notes |-> << "b","a","s","i","c"," ","p","l","u","s"," ","h","d" >>],
      [id |-> "ex5", title |-> << "B","a","s","i","c" >>,
       region |-> << "U","S" >>, tier |-> << "b","a","s","i","c" >>, devices |-> 1,
       notes |-> << "l","o","w"," ","c","o","s","t" >>] }

\* An example that shares no token with any query of Queries.
Filler(id) ==
    [id |-> id, title |-> << "F","i","l","l","e","r" >>,
     region |-> << "D","E" >>, tier |-> << "s","t","a","n","d","a","r","d" >>, devices |-> 1,
     notes |-> << "n","o","n","e" >>]

PoolExample(id) == CHOOSE e \in ExamplePool : e.id = id

\* A corpus of nine examples: ex1 and ex5, which differ in their id only,
\* are second and ninth, ex2 is fifth.
LongCorpus ==
    << Filler("f1"), PoolExample("ex1"), Filler("f3"), Filler("f4"), PoolExample("ex2"),
       Filler("f6"), Filler("f7"), Filler("f8"), PoolExample("ex5") >>

\* retrieval.py:41-43: the corpora loaded, lists of distinct examples.
Corpora ==
    { c \in UNION { [1..k -> ExamplePool] : k \in 0..MaxCorpus } :
        \A i, j \in DOMAIN c : i # j => c[i] # c[j] }
    \cup { LongCorpus }

\* Queries: empty, blank, without a letter, with letters that are no token
\* of any example, with a proper prefix of a token, and with tokens of the
\* examples in either case, repeated or not.
Queries ==
    { <<>>,
      << " " >>,
      << " "," " >>,
      << "4" >>,
      << "z","z" >>,
      << "h","d","4","k","!" >>,
      << "b","a","s","i" >>,
      << "b","a","s","i","c" >>,
      << "B","A","S","I","C"," ","u","s" >>,
      << "u","h","d"," ","p","r","e","m","i","u","m" >>,
      << "i","n" >>,
      << "u","s"," ","u","s"," ","p","l","u","s" >> }

IsLetter(c) == IsUpperChar(c) \/ IsLowerChar(c)

\* str.strip() leaves nothing: every character of the text is a blank.
IsBlank(s) == \A i \in DOMAIN s : s[i] = " "

RECURSIVE TokenScan(_, _, _, _)
\* re.findall(r"[a-zA-Z]+", text) from position i on, lowercased; cur is
\* the run of letters being read, acc the tokens found.
TokenScan(s, i, cur, acc) ==
    IF i > Len(s) THEN (IF cur = <<>> THEN acc ELSE Append(acc, cur))
    ELSE IF IsLetter(s[i]) THEN TokenScan(s, i + 1, Append(cur, LowerChar(s[i])), acc)
    ELSE TokenScan(s, i + 1, <<>>, IF cur = <<>> THEN acc ELSE Append(acc, cur))

\* retrieval.py:46-48
Tokenize(s) == TokenScan(s, 1, <<>>, <<>>)

\* retrieval.py:53, 77: " ".join([title, region, tier, notes])
JoinedText(e) == e.title \o << " " >> \o e.region \o << " " >> \o e.tier \o << " " >> \o e.notes

\* retrieval.py:50-56: token -> positions of the examples whose text has it.
BuildIndex(examples) ==
    LET tokensOf(i) == Range(Tokenize(JoinedText(examples[i])))
        keys == UNION { tokensOf(i) : i \in DOMAIN examples }
    IN [t \in keys |-> { i \in DOMAIN examples : t \in tokensOf(i) }]

RECURSIVE CountFrom(_, _, _)
\* str.count: occurrences of token in s from position i on, not overlapping.
CountFrom(s, token, i) ==
    IF i + Len(token) - 1 > Len(s) THEN 0
    ELSE IF SubSeq(s, i, i + Len(token) - 1) = token
         THEN 1 + CountFrom(s, token, i + Len(token))
         ELSE CountFrom(s, token, i + 1)

\* 1000 * math.log1p(n) for n = 1..8, rounded.
Log1pTable == << 693, 1099, 1386, 1609, 1792, 1946, 2079, 2197 >>

RECURSIVE ScoreTokens(_, _, _)
\* retrieval.py:79-82: the loop over tokens[k..].
ScoreTokens(text, tokens, k) ==
    IF k > Len(tokens) THEN 0
    ELSE LET occurrences == CountFrom(text, tokens[k], 1) IN
         (IF occurrences > 0 THEN 1000 + Log1pTable[occurrences] ELSE 0)
         + ScoreTokens(text, tokens, k + 1)

\* retrieval.py:76-84
ScoreExample(e, tokens) == ScoreTokens(Lower(JoinedText(e)), tokens, 1) + 100 * e.devices

\* list[:k] for k >= 0
Take(list, k) == SubSeq(list, 1, IF k < Len(list) THEN k ELSE Len(list))

\* retrieval.py:62-64
CandidateIndices(index, tokens) ==
    UNION { IF tokens[k] \in DOMAIN index THEN index[tokens[k]] ELSE {} : k \in DOMAIN tokens }

\* The positions of `candidates` in increasing order.
Ascending(candidates) ==
    [p \in 1..Cardinality(candidates) |->
        CHOOSE i \in candidates : Cardinality({ j \in candidates : j < i }) = p - 1]

\* retrieval.py:68: `for idx in candidate_indices`, the orders in which the
\* set can be iterated.  The language leaves the order of a set open.  A
\* hash table of a set has 8 slots or more and an int is its own hash, so
\* indices 0..7 (positions 1..8) each sit in the slot of their value and
\* come out in increasing order; a larger index can wrap around to a slot
\* before a smaller one, or not, as the implementation lays the table out.
IterationOrders(candidates) ==
    IF \A i \in candidates : i <= 8 THEN { Ascending(candidates) }
    ELSE { o \in [1..Cardinality(candidates) -> candidates] :
             \A p, q \in DOMAIN o : p # q => o[p] # o[q] }

\* retrieval.py:68-73: the candidates are scored in iteration order and
\* sorted by decreasing score, candidates of equal score staying in that
\* order (list.sort is stable, reverse=True keeps it so).
ScoredAndSorted(examples, order, tokens) ==
    LET score(p) == ScoreExample(examples[order[p]], tokens)
        rank(p) == Cardinality({ q \in DOMAIN order :
                                   score(q) > score(p) \/ (score(q) = score(p) /\ q < p) }) + 1
    IN [r \in DOMAIN order |-> examples[order[CHOOSE p \in DOMAIN order : rank(p) = r]]]

\* NoCandidates that never holds: the second early return is not taken.
NoCandidatesNever(candidates) == FALSE

\* retrieval.py:65
NoCandidates(candidates) == candidates = {}

\* retrieval.py:58-74: the lists retrieve can return, one for each order in
\* which the candidate set can be iterated.
Retrieve(examples, index, query, top_k) ==
    IF IsBlank(query) THEN { Take(examples, top_k) }
    ELSE LET tokens == Tokenize(query)
             candidates == CandidateIndices(index, tokens)
         IN IF NoCandidates(candidates) THEN { Take(examples, top_k) }
            ELSE { Take(ScoredAndSorted(examples, order, tokens), top_k) :
                     order \in IterationOrders(candidates) }

InitRetrieve ==
    /\ r_examples \in Corpora
    /\ r_index = BuildIndex(r_examples)
    /\ r_query \in Queries
    /\ r_top_k \in 0..MaxTopK
    /\ r_out = <<>>
    /\ r_pc = "call"
    /\ PipelineIdle
    /\ ValidatorIdle
    /\ RevalidateIdle
    /\ ABIdle

\* retrieval.py:58-74
CallRetrieve ==
    /\ r_pc = "call"
    /\ r_out' \in Retrieve(r_examples, r_index, r_query, r_top_k)
    /\ r_pc' = "returned"
    /\ UNCHANGED << r_examples, r_index, r_query, r_top_k >>
    /\ UNCHANGED << pipelineVars, validatorVars, revalidateVars, abVars >>

NextRetrieve == CallRetrieve

SpecRetrieve == InitRetrieve /\ [][NextRetrieve]_vars

----------------------------------------------------------------------------
(* Properties of generate_document, checked under Spec *)

Succeeded == pc = "done" /\ result # NoResult

Exhausted == pc = "done" /\ raised.reason = "Unable to generate a valid plan"

TransportFailed == pc = "done" /\ raised.reason = "LLM request failed"

\* The last completed attempt ended in a parse error or in validation errors.
LastInvalid == last # NoLast /\ last.kind \in { "parse_error", "invalid" }

\* The budget of the call, from its arguments.
Budget == IF max_attempts # 0 THEN max_attempts ELSE max_retries

\* C1: a result is returned only from an attempt whose merged payload got
\* zero errors from the validator; in the returned document the plan ids
\* are pairwise distinct, every device_limit is in 0..8, and no plan whose
\* tier is basic or mobile in any case has device_limit > 1.
C1_ReturnedDocumentValidated ==
    result # NoResult =>
        /\ validate_calls >= 1
        /\ validation_errors = <<>>
        /\ last.kind = "valid" /\ last.errors = <<>> /\ last.payload = payload
        /\ LET plans == result.document.plans IN
              /\ \A i, j \in DOMAIN plans : i # j => plans[i].id # plans[j].id
              /\ \A i \in DOMAIN plans : plans[i].device_limit \in 0..8
              /\ \A i \in DOMAIN plans :
                    Lower(plans[i].tier) \in { s_basic, s_mobile } => plans[i].device_limit <= 1

\* A two-plan document with a basic plan is returned after a failed attempt.
C1_Witness ==
    /\ Succeeded
    /\ attempt >= 2
    /\ Len(result.document.plans) = 2
    /\ \E i \in DOMAIN result.document.plans : Lower(result.document.plans[i].tier) = s_basic

\* C2 as stated: when the call ends in exhaustion, exactly max_retries LLM
\* calls were made.
C2_ExhaustedAfterMaxRetries == Exhausted => llm_calls = max_retries

\* C2, amended: when every response is invalid and no LLM call fails, the
\* call raises the generation-failed error after exactly Budget LLM calls
\* (max_attempts when it is non-zero, max_retries otherwise); the error
\* carries that count and the error list of the final attempt.
C2_ExhaustedAfterBudget ==
    /\ Exhausted =>
          /\ llm_calls = Budget
          /\ attempt = Budget
          /\ LastInvalid
          /\ result = NoResult
          /\ raised.type = "PlanGenerationError"
          /\ raised.attempts = Budget
          /\ raised.errors = last.errors
          /\ raised.errors # <<>>
    /\ (pc = "done" /\ LastInvalid /\ ~TransportFailed) => Exhausted
    /\ (pc = "loop" /\ attempt > 0) => (LastInvalid /\ llm_calls = attempt /\ attempt <= Budget)

\* Exhaustion under a max_attempts that differs from max_retries.
C2_Witness ==
    /\ Exhausted
    /\ max_attempts # 0
    /\ max_attempts # max_retries
    /\ llm_calls >= 2

\* C3: when the k-th response is the first that validates with zero errors,
\* the call succeeds on attempt k after exactly k LLM calls, 1 <= k <= Budget,
\* and the result's warnings are exactly the validator's warnings for the
\* k-th payload, with nothing kept from earlier attempts.
C3_SuccessOnFirstValidAttempt ==
    /\ (last # NoLast /\ last.kind = "valid") => Succeeded
    /\ Succeeded =>
          /\ attempt \in 1..Budget
          /\ llm_calls = attempt
          /\ raised = NoException
          /\ result.yaml_output = last.text
          /\ result.validation_warnings = CrossFieldRules(result.document).warnings
          /\ result.validation_warnings = Validate(last.payload).warnings
    /\ (pc \in { "llm", "parse", "merge", "validate" } /\ attempt > 1) => LastInvalid

\* Success on a later attempt with an empty warnings list.
C3_Witness ==
    /\ Succeeded
    /\ attempt >= 2
    /\ result.validation_warnings = <<>>

\* C4: a failing llm.generate ends the call at once with the generation
\* error: the step after an outstanding request is either the response
\* being taken or the failure, and after the failure nothing changes any
\* more (no LLM call, no parse, no validation).
C4_TransportFailureAborts ==
    [][ /\ (pc = "llm" /\ pc' # "parse") =>
              /\ pc' = "done"
              /\ raised' = LLMRequestFailed
              /\ raised'.type = "PlanGenerationError"
              /\ result' = NoResult
              /\ UNCHANGED << llm_calls, validate_calls, payload, validation_errors, attempt >>
        /\ raised.reason = "LLM request failed" => UNCHANGED vars ]_vars

\* The LLM call of a second attempt failed with attempts left.
C4_Witness ==
    /\ TransportFailed
    /\ attempt = 2
    /\ attempt < attempts

\* C5: when the raw text does not parse to a mapping, the attempt ends with
\* the validator not called, the error list being exactly one parse-error
\* message, and the loop at its head with the same attempt number, from
\* where it starts attempt n+1 or, after the last attempt, raises exhaustion.
C5_ParseFailureConsumesOneAttempt ==
    [][ /\ (pc = "parse" /\ ParseYaml(yaml_output).parse_error # <<>>) =>
              /\ pc' = "loop"
              /\ validation_errors' \in { << YamlParseError >>, << NotMappingError >> }
              /\ UNCHANGED << validate_calls, llm_calls, attempt, result, raised >>
        /\ pc = "loop" =>
              \/ attempt < attempts /\ attempt' = attempt + 1 /\ pc' = "llm"
                   /\ llm_calls' = llm_calls + 1
              \/ attempt >= attempts /\ pc' = "done"
                   /\ raised' = UnableToGenerate(attempts, validation_errors) ]_vars

\* The last allowed attempt failed to parse, without any validation so far.
C5_Witness ==
    /\ pc = "loop"
    /\ last # NoLast /\ last.kind = "parse_error"
    /\ attempt = attempts
    /\ attempt >= 2
    /\ validate_calls = 0

\* C6 as stated: the prompt of attempt 1 ends with the draft-fresh
\* instruction and has no repair block; the prompt of every attempt n > 1,
\* whatever the previous output was, has a repair block with the raw output
\* of attempt n-1 and the error list recorded for it, and no draft-fresh
\* instruction.
C6_RepairBlockOnEveryRetry ==
    pc = "llm" =>
        /\ attempt = 1 => prompt.tail = DraftFresh
        /\ attempt > 1 =>
              /\ prompt.tail.kind = "repair"
              /\ prompt.tail.previous = Text(Strip(last.text.lines), last.text.doc)
              /\ prompt.tail.feedback = last.errors

\* C7 as stated: a call that does not return a result ends in the
\* generation error (PlanGenerationError) and in no other kind of failure.
C7_OnlyGenerationErrors ==
    (pc = "done" /\ result = NoResult) => raised.type = "PlanGenerationError"

\* C8: warnings never cause a retry or a failure: a validation that finds
\* zero errors ends the call in success in that same step, whatever the
\* number of warnings, and the result carries all of them in the
\* validator's order.
C8_WarningsNeverBlock ==
    [][ (pc = "validate" /\ Validate(payload).errors = <<>>) =>
            /\ pc' = "done"
            /\ result' # NoResult
            /\ result'.validation_warnings = Validate(payload).warnings
            /\ result'.yaml_output = yaml_output
            /\ raised' = NoException
            /\ UNCHANGED << attempt, llm_calls >> ]_vars

\* A result carrying two warnings.
C8_Witness ==
    /\ Succeeded
    /\ Len(result.validation_warnings) >= 2

----------------------------------------------------------------------------
(* Properties of PlanValidator.validate, checked under SpecValidate *)

\* The messages of the cross-field phase.
CrossFieldMessages ==
    { "Duplicate plan id", "Basic tier plan exceeds 1 device limit",
      "Mobile tier plan exceeds mobile device policy",
      "Duplicate region/tier combination",
      "Premium tier plan should advertise UHD or 4K video quality",
      "Plan is free with no add-ons" }

\* The payload has plans that share an id, or a basic or mobile plan with
\* more than one device.
WouldTripRules(p) ==
    /\ "plans" \in DOMAIN p
    /\ \/ \E i, j \in DOMAIN p.plans : i < j /\ p.plans[i].id = p.plans[j].id
       \/ \E i \in DOMAIN p.plans :
             /\ "device_limit" \in DOMAIN p.plans[i]
             /\ p.plans[i].device_limit > 1
             /\ Lower(p.plans[i].tier) \in { s_basic, s_mobile }

\* C9: for a payload with a structural violation, validate returns only
\* the structural errors: no cross-field message among the errors and an
\* empty warnings list, also when the payload would trip a cross-field rule.
C9_StructuralShortCircuit ==
    (v_pc = "returned" /\ SchemaErrors(v_payload) # <<>>) =>
        /\ v_out.errors = SchemaErrors(v_payload)
        /\ \A i \in DOMAIN v_out.errors : v_out.errors[i].rule \notin CrossFieldMessages
        /\ v_out.warnings = <<>>

\* A structurally invalid payload that would also trip a cross-field rule.
C9_Witness ==
    /\ v_pc = "returned"
    /\ SchemaErrors(v_payload) # <<>>
    /\ WouldTripRules(v_payload)
    /\ Len(v_payload.plans) = 2

\* C10: for a structurally valid payload, the basic-tier error for a name
\* is reported exactly when a plan of that name has a tier equal to "basic"
\* ignoring case and device_limit > 1; likewise the mobile error; neither
\* message ever appears among the warnings.
C10_DeviceRules ==
    (v_pc = "returned" /\ SchemaErrors(v_payload) = <<>>) =>
        LET plans == v_payload.plans IN
        /\ \A i \in DOMAIN plans :
              /\ Err(<<>>, "Basic tier plan exceeds 1 device limit", << plans[i].name >>)
                    \in Range(v_out.errors)
                 <=> \E j \in DOMAIN plans :
                        /\ plans[j].name = plans[i].name
                        /\ Lower(plans[j].tier) = s_basic
                        /\ plans[j].device_limit > 1
              /\ Err(<<>>, "Mobile tier plan exceeds mobile device policy", << plans[i].name >>)
                    \in Range(v_out.errors)
                 <=> \E j \in DOMAIN plans :
                        /\ plans[j].name = plans[i].name
                        /\ Lower(plans[j].tier) = s_mobile
                        /\ plans[j].device_limit > 1
        /\ Cardinality({ k \in DOMAIN v_out.errors :
                           v_out.errors[k].rule \in
                              { "Basic tier plan exceeds 1 device limit",
                                "Mobile tier plan exceeds mobile device policy" } })
             = Cardinality({ i \in DOMAIN plans :
                               /\ Lower(plans[i].tier) \in { s_basic, s_mobile }
                               /\ plans[i].device_limit > 1 })
        /\ \A k \in DOMAIN v_out.warnings :
              v_out.warnings[k].rule \notin
                 { "Basic tier plan exceeds 1 device limit",
                   "Mobile tier plan exceeds mobile device policy" }

\* A valid payload with a basic plan spelled in mixed case above one device,
\* next to a mobile plan at one device.
C10_Witness ==
    /\ v_pc = "returned"
    /\ SchemaErrors(v_payload) = <<>>
    /\ Len(v_payload.plans) = 2
    /\ v_payload.plans[1].tier = s_bASIC
    /\ v_payload.plans[1].device_limit = 2
    /\ Lower(v_payload.plans[2].tier) = s_mobile
    /\ v_payload.plans[2].device_limit = 1
    /\ Len(v_out.errors) = 1

\* Plan i of the mapping list carries the id of an earlier plan.
DuplicateIdAt(plans, i) == \E j \in 1..(i - 1) : plans[j].id = plans[i].id

\* Plan i carries the region and the tier of an earlier plan, ignoring case.
DuplicatePairAt(plans, i) ==
    \E j \in 1..(i - 1) :
        /\ Lower(plans[j].region) = Lower(plans[i].region)
        /\ Lower(plans[j].tier) = Lower(plans[i].tier)

\* C11: for a structurally valid payload the errors are, plan after plan in
\* document order, one duplicate-id error for a plan whose id equals an
\* earlier plan's id followed by that plan's device-rule errors; the
\* warnings are, plan after plan, one duplicate-pair warning for a plan
\* whose (region, tier) equals an earlier pair ignoring case followed by
\* that plan's advisory warnings; a duplicate pair is never an error, and a
\* document whose only findings are duplicate pairs has zero errors.
C11_DuplicatesInPlanOrder ==
    (v_pc = "returned" /\ SchemaErrors(v_payload) = <<>>) =>
        LET plans == v_payload.plans
            n == Len(plans)
        IN
        /\ v_out.errors =
              Concat([i \in 1..n |->
                  (IF DuplicateIdAt(plans, i)
                   THEN << Err(<<>>, "Duplicate plan id", << plans[i].id >>) >>
                   ELSE <<>>)
                  \o DeviceRuleErrors(TypedPlan(plans[i]))])
        /\ v_out.warnings =
              Concat([i \in 1..n |->
                  (IF DuplicatePairAt(plans, i)
                   THEN << Err(<<>>, "Duplicate region/tier combination",
                               plans[i].region \o <<" ">> \o Title(plans[i].tier)) >>
                   ELSE <<>>)
                  \o AdvisoryWarnings(TypedPlan(plans[i]))])
        /\ \A k \in DOMAIN v_out.errors :
              v_out.errors[k].rule # "Duplicate region/tier combination"
        /\ \A k \in DOMAIN v_out.warnings :
              v_out.warnings[k].rule # "Duplicate plan id"
        /\ ( /\ \E i \in 1..n : DuplicatePairAt(plans, i)
             /\ \A i \in 1..n :
                   /\ ~DuplicateIdAt(plans, i)
                   /\ ~( /\ Lower(plans[i].tier) \in { s_basic, s_mobile }
                         /\ plans[i].device_limit > 1 ) )
           => /\ v_out.errors = <<>>
              /\ v_out.warnings # <<>>

\* Two plans with one id whose tiers differ only in case: one duplicate-id
\* error and one duplicate-pair warning, both for the second.
C11_Witness ==
    /\ v_pc = "returned"
    /\ SchemaErrors(v_payload) = <<>>
    /\ Len(v_payload.plans) = 2
    /\ v_payload.plans[1].id = v_payload.plans[2].id
    /\ v_payload.plans[1].tier # v_payload.plans[2].tier
    /\ Lower(v_payload.plans[1].tier) = Lower(v_payload.plans[2].tier)
    /\ Len(v_out.errors) = 1
    /\ v_out.errors[1].rule = "Duplicate plan id"
    /\ Len(v_out.warnings) = 1
    /\ v_out.warnings[1].rule = "Duplicate region/tier combination"

\* The payload carries a key that the schema declares nowhere for its level:
\* in the document, in a plan, in a price object or in an add-on object.
HasUndeclaredProperty(p) ==
    \/ \E k \in DOMAIN p : k \notin DocumentProperties
    \/ /\ "plans" \in DOMAIN p
       /\ \E i \in DOMAIN p.plans :
             LET q == p.plans[i] IN
             \/ \E k \in DOMAIN q : k \notin PlanProperties
             \/ /\ "price" \in DOMAIN q
                /\ \E k \in DOMAIN q.price : k \notin { "monthly", "currency" }
             \/ /\ "add_ons" \in DOMAIN q
                /\ \E a \in DOMAIN q.add_ons :
                      \E k \in DOMAIN q.add_ons[a] :
                          k \notin { "name", "price_delta", "description" }

\* C12: a payload with an undeclared property at any level (document, plan,
\* price object, add-on object), with an empty plans array, or with two
\* identical plans gets a structural error, so that validate returns
\* errors, no warnings and no cross-field finding.
C12_UndeclaredPropertyRejected ==
    ( /\ v_pc = "returned"
      /\ \/ HasUndeclaredProperty(v_payload)
         \/ /\ "plans" \in DOMAIN v_payload
            /\ \/ v_payload.plans = <<>>
               \/ \E i, j \in DOMAIN v_payload.plans :
                     i # j /\ v_payload.plans[i] = v_payload.plans[j] )
    => /\ SchemaErrors(v_payload) # <<>>
       /\ v_out.errors # <<>>
       /\ v_out.warnings = <<>>
       /\ \A k \in DOMAIN v_out.errors : v_out.errors[k].rule \notin CrossFieldMessages

----------------------------------------------------------------------------
(* Properties of repeated validation, checked under SpecRevalidate *)

----------------------------------------------------------------------------
(* Properties of generate_ab_variants, checked under SpecAB *)

\* Number of llm.generate calls issued so far by the generation tasks.
RECURSIVE GenerationCalls(_)
GenerationCalls(i) == IF i = 0 THEN 0 ELSE br[i].calls + GenerationCalls(i - 1)

\* C14: with enable_ab_testing false, generate_ab_variants ends in the
\* generation error "A/B testing disabled", no generation task is ever
\* created or started, and no LLM call of either kind is ever issued.
C14_DisabledFailsBeforeAnyCall ==
    ~ab_enabled =>
        /\ ab_pc \in { "start", "failed" }
        /\ br = <<>>
        /\ GenerationCalls(Len(br)) = 0
        /\ ab_jcalls = 0
        /\ ab_return = <<>>
        /\ ab_pc = "failed" => ab_raised = ABTestingDisabled

\* The call has been refused.
C14_Witness ==
    /\ ~ab_enabled
    /\ ab_pc = "failed"
    /\ ab_raised.type = "PlanGenerationError"

\* The call returned a list in which position i holds the variant of the
\* i-th requested label: the label itself, the result of the i-th task,
\* whose document has at least one plan and is tagged with that label.
VariantsMatchLabels ==
    LET labels == LabelsOf(ab_labels_arg)
        variants == ab_return[1]
    IN /\ \A i \in DOMAIN br : br[i].pc = "returned"
       /\ Len(variants) = Len(labels)
       /\ \A i \in DOMAIN variants :
             /\ variants[i].label = labels[i]
             /\ variants[i].result = br[i].result
             /\ variants[i].result.document.plans # <<>>
             /\ variants[i].result.document.metadata.kv.variant_label = labels[i]

\* C15: a returned list holds exactly one variant per requested label, in
\* label order ("A", "B" by default), each with its own label, a document
\* with at least one plan and a non-empty justification; and once every
\* task has succeeded the call does not fail.
C15_OneVariantPerLabel ==
    /\ ab_pc = "returned" =>
          /\ VariantsMatchLabels
          /\ \A i \in DOMAIN ab_return[1] : ab_return[1][i].justification.lines # <<>>
    /\ (ab_pc = "failed" /\ ab_enabled) => \E i \in DOMAIN br : br[i].pc = "raised"

\* Task i ended in a transport failure or in attempt exhaustion.
EndedInGenerationError(i) ==
    /\ br[i].pc = "raised"
    /\ br[i].raised.type = "PlanGenerationError"

\* C16: once a generation task has ended in a transport failure or in
\* attempt exhaustion, the generate_ab_variants call has failed with the
\* generation error and returns no variants, whatever the other tasks did.
C16_OneFailureFailsTheCall ==
    (\E i \in DOMAIN br : EndedInGenerationError(i)) =>
        /\ ab_pc = "failed"
        /\ ab_raised.type = "PlanGenerationError"
        /\ ab_return = <<>>
        /\ ab_variants = <<>>
        /\ ab_jcalls = 0

\* The justification j is the fallback text for the typed document: its
\* lowest and highest monthly price and the currency of its first plan.
IsFallbackFor(j, document) ==
    LET plans == document.plans IN
    /\ j.source = "fallback"
    /\ j.lines # <<>>
    /\ \E i \in DOMAIN plans : plans[i].price.monthly = j.min_price
    /\ \E i \in DOMAIN plans : plans[i].price.monthly = j.max_price
    /\ \A i \in DOMAIN plans :
          /\ j.min_price <= plans[i].price.monthly
          /\ plans[i].price.monthly <= j.max_price
    /\ j.currency = plans[1].price.currency

\* C17: the step that ends a justification request, with a text or with a
\* failure, appends the variant of the current label and raises nothing; a
\* justification that is not the LLM's text is the fallback computed from
\* the lowest and highest monthly price of that variant's own plans and its
\* currency; the step issues no LLM call and leaves the tasks alone, and
\* the call goes on to the next label or returns all the variants.
C17_JustificationFailureFallsBack ==
    [][ ab_pc = "jllm" =>
          /\ ab_pc' \in { "justify", "returned" }
          /\ ab_raised' = NoException
          /\ ab_jcalls' = ab_jcalls
          /\ br' = br
          /\ Len(ab_variants') = Len(ab_variants) + 1
          /\ SubSeq(ab_variants', 1, Len(ab_variants)) = ab_variants
          /\ LET v == ab_variants'[Len(ab_variants')] IN
                /\ v.label = ab_labels[ab_j]
                /\ v.result = br[ab_j].result
                /\ v.justification.source # "llm" =>
                      IsFallbackFor(v.justification, br[ab_j].result.document)
          /\ ab_pc' = "returned" =>
                /\ ab_return' = << ab_variants' >>
                /\ Len(ab_variants') = Len(ab_labels) ]_vars

\* All variants returned, the first with the fallback text of a document
\* whose dearest plan comes first, the second with the LLM's text.
C17_Witness ==
    /\ ab_pc = "returned"
    /\ Len(ab_return[1]) = 2
    /\ ab_return[1][1].justification.source = "fallback"
    /\ ab_return[1][1].justification.min_price = 9
    /\ ab_return[1][1].justification.max_price = 16
    /\ ab_return[1][1].result.document.plans[1].price.monthly = 16
    /\ ab_return[1][2].justification.source = "llm"
    /\ ab_raised = NoException

\* C19: a justification request is issued only when every generation task
\* has returned a result; a list is returned only when a justification, the
\* LLM's text or the fallback, has been obtained for every label, after one
\* request per label; a failed call returns no list.
C19_JustificationsAfterAllBranches ==
    /\ (ab_jcalls > 0 \/ ab_pc \in { "justify", "jllm", "returned" } \/ ab_variants # <<>>) =>
          \A i \in DOMAIN br : br[i].pc = "returned" /\ br[i].result # NoResult
    /\ Len(ab_variants) <= ab_jcalls
    /\ ab_return # <<>> =>
          /\ ab_pc = "returned"
          /\ Len(ab_return[1]) = Len(ab_labels)
          /\ ab_jcalls = Len(ab_labels)
          /\ \A i \in DOMAIN ab_return[1] :
                ab_return[1][i].justification.source \in { "llm", "fallback" }
    /\ ab_pc # "returned" => ab_return = <<>>

\* Both tasks needed a second attempt, and the second justification
\* request is outstanding.
C19_Witness ==
    /\ ab_pc = "jllm"
    /\ ab_jcalls = 2
    /\ Len(br) = 2
    /\ \A i \in DOMAIN br : br[i].pc = "returned" /\ br[i].attempt = 2
    /\ Len(ab_variants) = 1

\* The prompt of task i ends with the repair block made of the text and the
\* errors of that task's own latest attempt.
RepairsOwnAttempt(i) ==
    LET tail == br[i].prompt.body.tail
        own == br[i].last
    IN tail.kind = "repair" =>
          /\ tail.previous = Text(Strip(own.text.lines), own.text.doc)
          /\ tail.feedback = IF own.errors = <<>> THEN << InvalidOutputBullet >>
                             ELSE own.errors

\* C20: every generation task issues at most max_retries LLM calls, one per
\* attempt, whatever its siblings do; and the repair block of a task's
\* prompt holds the output and the error list of that same task's previous
\* attempt, not those of a sibling whose previous attempt was different.
C20_BranchesAreIndependent ==
    \A i \in DOMAIN br :
        /\ br[i].calls <= ab_max_retries
        /\ br[i].calls = br[i].attempt
        /\ (br[i].pc = "llm" /\ br[i].attempt > 1) =>
              /\ RepairsOwnAttempt(i)
              /\ \A k \in DOMAIN br :
                    ( /\ k # i
                      /\ br[i].prompt.body.tail.kind = "repair"
                      /\ br[k].last # NoLast
                      /\ br[k].last.errors # br[i].last.errors
                      /\ br[k].last.errors # <<>> ) =>
                        br[i].prompt.body.tail.feedback # br[k].last.errors

\* Two tasks in their second attempt whose first attempts failed in
\* different ways, the sibling having completed its attempt last.
C20_Witness ==
    /\ Len(br) = 2
    /\ \A i \in DOMAIN br : br[i].pc = "llm" /\ br[i].attempt = 2
    /\ br[1].prompt.body.tail.kind = "repair"
    /\ br[2].prompt.body.tail.kind = "repair"
    /\ br[1].last.errors # br[2].last.errors
    /\ ab_latest = br[2].last
    /\ ab_max_retries = 2

----------------------------------------------------------------------------
(* Properties of ExampleRetriever.retrieve, checked under SpecRetrieve *)

\* s[i..j] is a maximal run of letters of s.
IsTokenAt(s, i, j) ==
    /\ i <= j
    /\ \A k \in i..j : IsLetter(s[k])
    /\ i = 1 \/ ~IsLetter(s[i - 1])
    /\ j = Len(s) \/ ~IsLetter(s[j + 1])

\* Some token of the query is, ignoring case, a token of the text of some
\* example of the corpus.
QueryMatches(query, examples) ==
    \E i, j \in DOMAIN query :
        /\ IsTokenAt(query, i, j)
        /\ \E n \in DOMAIN examples :
              LET text == JoinedText(examples[n]) IN
              \E a, b \in DOMAIN text :
                  /\ IsTokenAt(text, a, b)
                  /\ Lower(SubSeq(text, a, b)) = Lower(SubSeq(query, i, j))

\* C18: for a query none of whose tokens is a token of any example, the
\* empty and the blank query included, retrieve returns the first top_k
\* examples of the corpus in corpus order (the whole corpus when it has
\* fewer).
C18_FallbackToCorpusPrefix ==
    (r_pc = "returned" /\ ~QueryMatches(r_query, r_examples)) =>
        /\ Len(r_out) = (IF r_top_k < Len(r_examples) THEN r_top_k ELSE Len(r_examples))
        /\ \A i \in DOMAIN r_out : r_out[i] = r_examples[i]

\* A query with letters that match nothing, on a corpus of two examples of
\* which the second has the higher device count, asked for one example.
C18_Witness ==
    /\ r_pc = "returned"
    /\ r_query # <<>>
    /\ \E i \in DOMAIN r_query : IsLetter(r_query[i])
    /\ ~QueryMatches(r_query, r_examples)
    /\ Len(r_examples) = 2
    /\ r_examples[2].devices > r_examples[1].devices
    /\ r_top_k = 1
    /\ r_out = << r_examples[1] >>

----------------------------------------------------------------------------
(* C21: the retry loop of one generate_document call is sequential *)

\* llm.generate calls issued and neither returned nor failed yet.
Outstanding == llm_calls - llm_done

\* C21: within one generate_document call at most one LLM request is
\* outstanding at any time, and a step that issues the request of attempt
\* n+1 is taken only when no request is outstanding and every one of the n
\* attempts before it is settled: its response was parsed and, when it
\* parsed, validated (the latest one with a parse error or with validation
\* errors, as the text it returned decides).
C21_AttemptsAreSequential ==
    /\ [](Outstanding \in {0, 1})
    /\ [][ llm_calls' # llm_calls =>
             /\ llm_calls' = llm_calls + 1
             /\ Outstanding = 0
             /\ Outstanding' = 1
             /\ settled = llm_calls
             /\ attempt' = llm_calls'
             /\ llm_calls >= 1 =>
                   /\ last # NoLast
                   /\ last.text = yaml_output
                   /\ last.kind \in {"parse_error", "invalid"}
                   /\ (last.kind = "parse_error") = ParseFailed(ParseYaml(yaml_output))
                   /\ last.kind = "invalid" => validate_calls >= 1 ]_vars

\* The second request is outstanding, issued after the first response was
\* parsed and found invalid by the validator.
C21_Witness ==
    /\ pc = "llm"
    /\ llm_calls = 2
    /\ Outstanding = 1
    /\ settled = 1
    /\ last # NoLast
    /\ last.kind = "invalid"

----------------------------------------------------------------------------
(* C22: caller metadata is merged over the model's, before validation *)

\* The metadata mapping the model itself produced in the text `raw`
\* (no entries when the key is absent).
OwnMetadata(raw) ==
    LET own == ParseYaml(raw).payload
    IN IF "metadata" \in DOMAIN own /\ own.metadata.ty = "map" THEN own.metadata.kv ELSE <<>>

\* md is the mapping M laid over the model's own entries: every key of M
\* with M's value, every other model-produced key with the model's value,
\* and no other key.
MergedOver(md, own) ==
    /\ md.ty = "map"
    /\ DOMAIN md.kv = (DOMAIN metadata.kv) \cup (DOMAIN own)
    /\ \A k \in DOMAIN metadata.kv : md.kv[k] = metadata.kv[k]
    /\ \A k \in (DOMAIN own) \ (DOMAIN metadata.kv) : md.kv[k] = own[k]

\* C22: with non-empty caller metadata M, the document returned on success
\* maps every key of M to M's value (also where the model produced the
\* same key) and keeps every model-produced key that is not in M; and on
\* each attempt that parses, the payload handed to the validator, accepted
\* or not, already carries the merge.
C22_CallerMetadataMerged ==
    TruthyDict(metadata) =>
        /\ Succeeded =>
              MergedOver(result.document.metadata, OwnMetadata(result.yaml_output))
        /\ pc = "validate" =>
              /\ "metadata" \in DOMAIN payload
              /\ MergedOver(payload.metadata, OwnMetadata(yaml_output))
        /\ (last # NoLast /\ last.kind \in {"valid", "invalid"}) =>
              /\ "metadata" \in DOMAIN last.payload
              /\ MergedOver(last.payload.metadata, OwnMetadata(last.text))

\* A success after a rejected attempt, both with the merge applied, where
\* the model produced variant_label itself, with a value other than the
\* caller's, and a key of its own.
C22_Witness ==
    /\ Succeeded
    /\ TruthyDict(metadata)
    /\ attempt = 2
    /\ "variant_label" \in DOMAIN OwnMetadata(result.yaml_output)
    /\ OwnMetadata(result.yaml_output).variant_label # metadata.kv.variant_label
    /\ (DOMAIN OwnMetadata(result.yaml_output)) \ (DOMAIN metadata.kv) # {}
    /\ result.document.metadata.kv.variant_label = metadata.kv.variant_label

----------------------------------------------------------------------------
(* C23: the order of the examples retrieve returns for a matching query *)

\* The candidates of the call that returned: the positions of the examples
\* with some token of the query among their tokens.
Candidates == CandidateIndices(r_index, Tokenize(r_query))

\* Position and score of a returned example (the examples of a corpus are
\* distinct).
PositionOf(e) == CHOOSE i \in DOMAIN r_examples : r_examples[i] = e

ScoreOf(e) == ScoreExample(e, Tokenize(r_query))

\* The list is made of min(top_k, number of candidates) distinct
\* candidates, none scoring below a candidate left out, by decreasing score.
HighestScoringFirst(out) ==
    /\ Len(out) = (IF r_top_k < Cardinality(Candidates) THEN r_top_k
                   ELSE Cardinality(Candidates))
    /\ \A p \in DOMAIN out : \E i \in Candidates : out[p] = r_examples[i]
    /\ \A p, q \in DOMAIN out : p < q =>
          /\ out[p] # out[q]
          /\ ScoreOf(out[p]) >= ScoreOf(out[q])
    /\ \A p \in DOMAIN out : \A i \in Candidates :
          (\A q \in DOMAIN out : out[q] # r_examples[i]) =>
              ScoreOf(out[p]) >= ScoreOf(r_examples[i])

\* Two returned examples of equal score are in corpus order.
TiesInCorpusOrder(out) ==
    \A p, q \in DOMAIN out :
        (p < q /\ ScoreOf(out[p]) = ScoreOf(out[q])) => PositionOf(out[p]) < PositionOf(out[q])

\* C23: when some token of the query matches the index, retrieve returns
\* the min(top_k, number of candidates) highest-scoring candidates by
\* decreasing score, and two candidates of equal score appear in their
\* corpus index order.
C23_HighestScoresInStableOrder ==
    (r_pc = "returned" /\ QueryMatches(r_query, r_examples)) =>
        /\ HighestScoringFirst(r_out)
        /\ TiesInCorpusOrder(r_out)

----------------------------------------------------------------------------
(* C24: every generate_document call ends, within its budget of LLM calls *)

\* The event loop resumes the coroutine whenever it can take a step, and
\* an llm.generate call that was issued returns or raises in the end.
SpecFair == Spec /\ WF_vars(Next)

\* The call has ended in exactly one of success, exhaustion and transport
\* failure.
EndedInOneOfThree ==
    /\ pc = "done"
    /\ Cardinality({ k \in {"SUCCESS", "EXHAUSTED", "TRANSPORT"} :
                       \/ k = "SUCCESS" /\ Succeeded
                       \/ k = "EXHAUSTED" /\ Exhausted
                       \/ k = "TRANSPORT" /\ TransportFailed }) = 1

\* C24: when every LLM call returns or fails in the end, every
\* generate_document call ends, and it ends in exactly one of success,
\* exhaustion and transport failure, after at most Budget LLM calls
\* (max_attempts when non-zero, config.max_retries otherwise).
C24_EndsInOneOfThreeWithinBudget ==
    /\ <>(pc = "done")
    /\ [](llm_calls <= Budget)
    /\ [](pc = "done" => EndedInOneOfThree)

----------------------------------------------------------------------------
(* C25: a failing task fails the A/B call at once; its siblings run on *)

\* Task k is inside its retry loop: started or about to, and not ended.
InRetryLoop(b) == b.pc \in {"created", "llm"}

\* In this step task i raises while gather is awaited.
TaskRaises(i) ==
    /\ ab_pc = "gather"
    /\ br[i].pc # "raised"
    /\ br'[i].pc = "raised"

\* C25: when a task raises while gather is awaited, generate_ab_variants
\* raises that exception to its caller in the same step, whatever the
\* sibling tasks are doing, without a justification request and without a
\* return value; the step leaves every sibling as it was, those inside
\* their retry loop included, and after it the siblings go on as tasks of
\* their own: a step of a sibling changes that task alone, it can issue
\* further LLM calls up to its budget, and the failure the caller received
\* stays the one of the first task that raised.
C25_FailsAtOnceSiblingsRunOn ==
    /\ [][ \A i \in DOMAIN br :
             (i \in DOMAIN br' /\ TaskRaises(i)) =>
                 /\ ab_pc' = "failed"
                 /\ ab_raised' = br'[i].raised
                 /\ ab_at_raise' = br'
                 /\ ab_return' = <<>>
                 /\ ab_jcalls' = 0
                 /\ \A k \in DOMAIN br : k # i => br'[k] = br[k] ]_vars
    /\ [][ (ab_pc = "failed" /\ br # <<>>) =>
             /\ ab_pc' = "failed"
             /\ ab_raised' = ab_raised
             /\ ab_at_raise' = ab_at_raise
             /\ ab_return' = <<>>
             /\ DOMAIN br' = DOMAIN br
             /\ \A k \in DOMAIN br :
                   /\ br'[k].calls \in {br[k].calls, br[k].calls + 1}
                   /\ br'[k].calls <= ab_max_retries
                   /\ (br'[k] # br[k]) =>
                         /\ InRetryLoop(br[k])
                         /\ br'[k].pc \in {"llm", "returned", "raised"}
                         /\ \A j \in DOMAIN br : j # k => br'[j] = br[j] ]_vars
    /\ [](ab_pc = "failed" /\ ab_at_raise # <<>> =>
             \A k \in DOMAIN br : br[k].pc = "llm" => ENABLED BranchLLMReturn(k))

\* The call failed through a transport failure of one task while a sibling
\* was awaiting its first response; after the failure that sibling got an
\* invalid response and issued its second LLM call.
C25_Witness ==
    /\ ab_pc = "failed"
    /\ ab_at_raise # <<>>
    /\ \E i, k \in DOMAIN br :
          /\ i # k
          /\ ab_at_raise[i].pc = "raised"
          /\ ab_raised = ab_at_raise[i].raised
          /\ ab_at_raise[k].pc = "llm"
          /\ ab_at_raise[k].calls = 1
          /\ br[k].pc = "llm"
          /\ br[k].calls = 2

====
